---- MODULE Spec2Model ----
(***************************************************************************)
(* The Record page of the capture studio (src/src/pages/Record.tsx, the    *)
(* component with emotion detection, lines 406-876) together with the      *)
(* module-level classifier handle of utils/emotionDetection.               *)
(*                                                                         *)
(* One page instance is followed from its mount to its unmount.  A click   *)
(* is one event: it reaches the handler of a button that the last render   *)
(* shows, and the handler reads the state of that render (React renders    *)
(* again between two events), while a callback handed to                   *)
(* window.setInterval keeps the values of the render in which it was       *)
(* created.  SpecCalls adds a caller that holds the handlers of a render   *)
(* and calls one again before the page has rendered again.                 *)
(***************************************************************************)
EXTENDS Integers, Sequences, FiniteSets, TLC

\* Bounds of the model.
MaxStarts == 2      \* startRecording calls followed
MaxTicks == 2       \* firings of detection intervals followed
MaxTime == 1        \* firings of the 1-second timer counted
MaxStops == 2       \* stopRecording calls in a row followed
MaxLoads == 2       \* loadEmotionDetectionModel calls of the adapter harness
MaxDetects == 1     \* detectEmotion calls of the adapter harness
MaxPreds == 2       \* raw predictions in one output of the pipeline model
MaxMounts == 2      \* times the Record page is mounted
MaxSide == 3        \* width and height of the image samples, in pixels
MaxSimTime == 3     \* seconds counted by the simulated-analysis page
MaxSimStarts == 2   \* startRecording calls of the simulated-analysis page
MaxChunks == 1      \* timeslice chunks a MediaRecorder emits before it is stopped
MaxEvents == 10     \* events of the page in the behaviours followed

\* The two kinds of loader of the repository: "hf" assigns the handle and
\* returns (the Hugging Face pipeline, Record.tsx:1053-1069, and the first
\* tfjs loader, unnamed/part_001:11-21); "tf" runs a warm-up inference after
\* assigning it (unnamed/part_000:11-27, unnamed/part_001:136-152).
Variants == {"hf", "tf"}

VARIABLES
    variant,              \* which emotionDetection module the build uses
    mounted,              \* the page is mounted (videoRef.current is non-null)
    initPc,               \* position of the init() coroutine of the mount effect
    stream,               \* streamRef.current: "none" (null), "live", "stopped" (tracks stopped)
    classifier,           \* module-level model handle: 0 = null, 1 = loaded artifact
    isRecording, isMuted, isVideoOn, modelLoaded, loadingModel, recordingTime,
    emotions,             \* index in ticks of the result shown by the UI, 0 = initial values
    simRefreshes,         \* number of updateSimulatedAnalysis runs (eyeMovement, gestures)
    mediaRecorderRef,     \* index in recorders, 0 = null
    timerRef,             \* interval handle, 0 = null
    emotionDetectionRef,  \* interval handle, 0 = null
    recorders,            \* the MediaRecorder objects created so far
    intervals,            \* the intervals scheduled on window
    nextHandle,           \* next handle window.setInterval returns
    ticks,                \* the firings of detection intervals, in firing order
    audioEnabled, videoEnabled,   \* track.enabled of the audio / video tracks
    toasts,               \* toasts shown: "Recording complete", "Camera access denied"
    route,                \* where the router is: "record", "home" ('/'), "recordings", "elsewhere"
    stopCalls,            \* stopRecording calls since the last startRecording
    \* The adapter called on its own (SpecAdapter).
    loadCalls,            \* the loadEmotionDetectionModel calls: "pending", "true", "false"
    detects,              \* the detectEmotion calls made and what they resolved with
    \* One detectEmotion call from model output to result (SpecMap).
    dv,                   \* which detectEmotion: "hf", "tfraw", "tf", "tfmap"
    ucd,                  \* version of the Unicode data of the engine: 16 or 17
    input,                \* the model output: raw predictions ("hf") or 7 scores
    mapPc,                \* "idle", "call" (inference done), "done" (result returned)
    result,               \* the value detectEmotion resolved with
    \* The Record page mounted again and again (SpecMounts).
    pages,                \* per mount: where its init is, whether it is mounted,
                          \* its load call, whether it showed the denied toast
    \* One preprocessImage call (SpecTensor).
    pv,                   \* which preprocessImage: "plain", "tidy"
    image,                \* the ImageData: width, height, range of its pixel values
    prePc,                \* "idle", "call", "done"
    tensorOut,            \* the tensor preprocessImage returned
    live,                 \* tensors created by the call that are not disposed
    \* The Record page with simulated analysis only (SpecSim).
    sim,                  \* its state, refs, intervals and timer firings
    \* The recordings of the page (Spec).
    applied,              \* results applied to the UI state since the last firing
    chunksRef,            \* chunksRef.current: the chunks pushed, each with its recorder
    recordedBlob,         \* the Blob state: the recorder whose onstop stored it, its chunks
    recEvents,            \* per MediaRecorder: events fired, chunks with data, task owed
    events,               \* number of events the page has handled
    lastCall              \* the handler the last event called: "start", "stop", "none"

pageVars == <<variant, mounted, initPc, stream, classifier, isRecording, isMuted,
          isVideoOn, modelLoaded, loadingModel, recordingTime, emotions,
          simRefreshes, mediaRecorderRef, timerRef, emotionDetectionRef,
          recorders, intervals, nextHandle, ticks, audioEnabled, videoEnabled,
          toasts, route, stopCalls>>
adapterVars == <<loadCalls, detects>>
mapVars == <<dv, ucd, input, mapPc, result>>
mountVars == <<pages>>
tensorVars == <<pv, image, prePc, tensorOut, live>>
simVars == <<sim>>
recordingVars == <<applied, chunksRef, recordedBlob, recEvents>>
harnessVars == <<adapterVars, mapVars, mountVars, tensorVars, simVars>>
vars == <<pageVars, recordingVars, events, lastCall, harnessVars>>

reactState == <<isRecording, isMuted, isVideoOn, modelLoaded, loadingModel,
                recordingTime, emotions, simRefreshes>>
refs == <<mediaRecorderRef, timerRef, emotionDetectionRef>>
trackFlags == <<audioEnabled, videoEnabled>>

PageInit ==
    /\ variant \in Variants
    /\ mounted = TRUE
    /\ initPc = "camera"
    /\ stream = "none"
    /\ classifier = 0
    /\ isRecording = FALSE
    /\ isMuted = FALSE
    /\ isVideoOn = TRUE
    /\ modelLoaded = FALSE
    /\ loadingModel = FALSE
    /\ recordingTime = 0
    /\ emotions = 0
    /\ simRefreshes = 0
    /\ mediaRecorderRef = 0
    /\ timerRef = 0
    /\ emotionDetectionRef = 0
    /\ recorders = <<>>
    /\ intervals = {}
    /\ nextHandle = 1
    /\ ticks = <<>>
    /\ audioEnabled = TRUE
    /\ videoEnabled = TRUE
    /\ toasts = [complete |-> 0, denied |-> 0]
    /\ route = "record"
    /\ stopCalls = 0

AdapterIdle == loadCalls = <<>> /\ detects = <<>>

\* detectEmotion has not returned.
NoResult == [emotion |-> <<>>, confidence |-> 0, allEmotions |-> <<>>]

MapIdle ==
    dv = "hf" /\ ucd = 17 /\ input = <<>> /\ mapPc = "idle" /\ result = NoResult

NoMounts == pages = <<>>

\* A tensor: its shape, the range lo/den .. hi/den of its values, and
\* whether a value is NaN or infinite.
NoTensor == [shape |-> <<>>, lo |-> 0, hi |-> 0, den |-> 1, nan |-> FALSE]

NoImage == [width |-> 0, height |-> 0, lo |-> 0, hi |-> 0]

TensorIdle ==
    /\ pv = "tidy" /\ image = NoImage /\ prePc = "idle"
    /\ tensorOut = NoTensor /\ live = {}

\* The simulated-analysis page after its first render: mounted, getUserMedia
\* pending, no stream yet, not recording, recordingTime 0, no interval.
\* stopping counts the stop events that stopped recorders still owe,
\* firings the firings of 1-second timers, updated tells whether the last
\* one ran updateSimulatedAnalysis, before is recordingTime when it fired,
\* deniedToasts the access-denied toasts shown, route where the router is.
SimInit ==
    sim = [mounted |-> TRUE, initPc |-> "camera", stream |-> FALSE,
           isRecording |-> FALSE, recordingTime |-> 0,
           recordedBlob |-> FALSE, stopping |-> 0, timerRef |-> 0,
           intervals |-> {}, starts |-> 0, firings |-> 0, updated |-> FALSE,
           before |-> 0, deniedToasts |-> 0, route |-> "record"]

\* recordedBlob is null.
NoBlob == [rec |-> 0, chunks |-> <<>>]

RecordingInit ==
    /\ applied = 0
    /\ chunksRef = <<>>
    /\ recordedBlob = NoBlob
    /\ recEvents = <<>>
    /\ events = 0
    /\ lastCall = "none"

Init ==
    /\ PageInit /\ AdapterIdle /\ MapIdle /\ NoMounts /\ TensorIdle /\ SimInit
    /\ RecordingInit

----------------------------------------------------------------------------
(* The classifier adapter.                                                 *)

\* loadEmotionDetectionModel, from the call to the value it resolves with.
\* fetchOk: the artifact is fetched and initialised (the awaited promise
\* resolves); warmOk: the warm-up model.predict(zeros) of the tfjs loader
\* does not throw.  The handle is assigned as soon as the awaited promise
\* resolves, before the warm-up runs; a rejected promise leaves the handle
\* as it was.  Every exception is caught and turned into false.
loadEmotionDetectionModel(v, fetchOk, warmOk, old) ==
    IF ~fetchOk THEN [ret |-> FALSE, handle |-> old]
    ELSE IF v = "tf" /\ ~warmOk THEN [ret |-> FALSE, handle |-> 1]
    ELSE [ret |-> TRUE, handle |-> 1]

\* detectEmotion's first statement: without a handle it returns null and
\* runs no inference.
RunsInference == classifier # 0

\* Where a detectEmotion call can fail: getting the canvas context or
\* drawing the frame, preprocessing (tfjs), the forward pass, mapping the
\* output.
FailPoints == {"none", "capture", "preprocess", "inference", "mapping"}

\* The four detectEmotion modules: the pipeline module (Record.tsx), the
\* first tfjs module of unnamed/part_001, unnamed/part_000 and the later
\* tfjs module of unnamed/part_001.
Modules == {"hf", "tfraw", "tf", "tfmap"}

\* The loader that stands beside detectEmotion in each module: the later
\* tfjs modules warm the model up, the other two do not.
LoaderOf(m) == IF m \in {"hf", "tfraw"} THEN "hf" ELSE "tf"

\* The failures that happen before the call first awaits.  The pipeline
\* module captures the frame and awaits the classifier's promise.  The tfjs
\* modules capture, preprocess and call model.predict, which runs the
\* forward pass before it returns: an exception it throws is caught before
\* anything is awaited.
SyncFailPoints(m) ==
    IF m = "hf" THEN {"none", "capture"}
    ELSE {"none", "capture", "preprocess", "inference"}

\* The failures that happen when the awaited promise settles or after it:
\* the classifier's promise or predictions.data() rejects, the mapping of
\* the output throws.
AsyncFailPoints == {"none", "inference", "mapping"}

\* Mutant of detectEmotion: the frame is captured before the try block.
detectEmotion_CaptureOutsideTry(handle, failAt) ==
    IF handle = 0 THEN [inferred |-> FALSE, out |-> "null"]
    ELSE IF failAt = "capture" THEN [inferred |-> FALSE, out |-> "throws"]
    ELSE IF failAt = "none" THEN [inferred |-> TRUE, out |-> "result"]
    ELSE [inferred |-> failAt \in {"inference", "mapping"}, out |-> "null"]

\* detectEmotion: null at once without a handle; otherwise the whole
\* pipeline runs inside try and every exception becomes null.  inferred:
\* the forward pass was started.  out: what the promise settles with.
detectEmotion(handle, failAt) ==
    IF handle = 0 THEN [inferred |-> FALSE, out |-> "null"]
    ELSE IF failAt = "none" THEN [inferred |-> TRUE, out |-> "result"]
    ELSE [inferred |-> failAt \in {"inference", "mapping"}, out |-> "null"]

----------------------------------------------------------------------------
(* The mount effect: init() and its cleanup.                               *)

\* clearInterval(handle)
clearInterval(set, handle) == {iv \in set : iv.id # handle}

\* getUserMedia resolves: the stream is stored, the model load starts.
\* State setters of an unmounted component do nothing.
cameraGranted ==
    /\ initPc = "camera"
    /\ initPc' = "loading"
    /\ stream' = "live"
    /\ loadingModel' = IF mounted THEN TRUE ELSE loadingModel
    /\ UNCHANGED <<variant, mounted, classifier, isRecording, isMuted, isVideoOn,
                   modelLoaded, recordingTime, emotions, simRefreshes, refs,
                   recorders, intervals, nextHandle, ticks, trackFlags,
                   toasts, route, stopCalls>>

\* getUserMedia rejects: the catch block shows the access-denied toast and
\* calls navigate('/').  The router leaves the Record route: a page still
\* mounted unmounts and the cleanup of its effect runs, with no stream to
\* stop.
cameraDenied ==
    /\ initPc = "camera"
    /\ initPc' = "denied"
    /\ toasts' = [toasts EXCEPT !.denied = @ + 1]
    /\ route' = "home"
    /\ mounted' = FALSE
    /\ intervals' = IF mounted
                    THEN clearInterval(clearInterval(intervals, timerRef),
                                       emotionDetectionRef)
                    ELSE intervals
    /\ UNCHANGED <<variant, stream, classifier, reactState, refs,
                   recorders, nextHandle, ticks, trackFlags, stopCalls>>

\* await loadEmotionDetectionModel() returns: setModelLoaded(loaded),
\* setLoadingModel(false) and the toast for the outcome.
loadReturns(fetchOk, warmOk) ==
    /\ initPc = "loading"
    /\ LET r == loadEmotionDetectionModel(variant, fetchOk, warmOk, classifier) IN
        /\ classifier' = r.handle
        /\ initPc' = IF r.ret THEN "ready" ELSE "fallback"
        /\ modelLoaded' = IF mounted THEN r.ret ELSE modelLoaded
        /\ loadingModel' = IF mounted THEN FALSE ELSE loadingModel
    /\ UNCHANGED <<variant, mounted, stream, isRecording, isMuted, isVideoOn,
                   recordingTime, emotions, simRefreshes, refs, recorders,
                   intervals, nextHandle, ticks, trackFlags, toasts, route,
                   stopCalls>>

\* The tracks of the stream a recorder records have all ended: the recorder
\* owes the task that inactivates it and fires dataavailable and stop.  A
\* browser may set the recorder's state to inactive at once (now) or leave
\* that to the task.
tracksEnded(rs, now) ==
    [r \in DOMAIN rs |->
        IF rs[r].state = "recording" /\ now
        THEN [rs[r] EXCEPT !.state = "inactive"]
        ELSE rs[r]]

\* Where the user can go from the Record page: '/' and '/recordings' by the
\* two links of the Header the page renders (Header.tsx:11 and 16), any
\* other place by the browser.
Leaves == {"home", "recordings", "elsewhere"}

\* Mutant of unmount: the cleanup does not clear the detection interval.
unmount_KeepsDetection(now, to) ==
    /\ mounted
    /\ mounted' = FALSE
    /\ route' = to
    /\ stream' = IF stream # "none" THEN "stopped" ELSE stream
    /\ intervals' = clearInterval(intervals, timerRef)
    /\ recorders' = IF stream # "none" THEN tracksEnded(recorders, now)
                    ELSE recorders
    /\ recEvents' = [r \in DOMAIN recEvents |->
                        IF stream # "none" /\ recorders[r].state = "recording"
                        THEN [recEvents[r] EXCEPT !.pending = "stop"]
                        ELSE recEvents[r]]
    /\ UNCHANGED <<variant, initPc, classifier, reactState, refs,
                   nextHandle, ticks, trackFlags, toasts, stopCalls>>
    /\ UNCHANGED <<applied, chunksRef, recordedBlob>>

\* The user goes to another route, to, and the page unmounts.  The effect's
\* cleanup runs: the tracks of the stored stream are stopped and the
\* intervals the two refs name are cleared.  React has detached videoRef by
\* then.  A recorder still recording that stream ends with its tracks.
unmount(now, to) ==
    /\ mounted
    /\ mounted' = FALSE
    /\ route' = to
    /\ stream' = IF stream # "none" THEN "stopped" ELSE stream
    /\ intervals' = clearInterval(clearInterval(intervals, timerRef),
                                  emotionDetectionRef)
    /\ recorders' = IF stream # "none" THEN tracksEnded(recorders, now)
                    ELSE recorders
    /\ recEvents' = [r \in DOMAIN recEvents |->
                        IF stream # "none" /\ recorders[r].state = "recording"
                        THEN [recEvents[r] EXCEPT !.pending = "stop"]
                        ELSE recEvents[r]]
    /\ UNCHANGED <<variant, initPc, classifier, reactState, refs,
                   nextHandle, ticks, trackFlags, toasts, stopCalls>>
    /\ UNCHANGED <<applied, chunksRef, recordedBlob>>

----------------------------------------------------------------------------
(* The handlers of the page.                                               *)

Min(a, b) == IF a < b THEN a ELSE b

\* The Start Recording button is rendered ({!isRecording ? ... }) and not
\* disabled (disabled={loadingModel}).
StartButtonEnabled == mounted /\ ~isRecording /\ ~loadingModel

\* The End Recording button is rendered ({!isRecording ? ... : ...}).
StopButtonShown == mounted /\ isRecording

\* The Recording Complete card with the New Recording button is rendered.
NewRecordingShown == mounted /\ ~isRecording /\ recordedBlob.rec # 0

\* Mutant of startEmotionDetection: the modelLoaded guard is missing.
startEmotionDetection_NoModelGuard(handle) ==
    IF ~mounted THEN {}
    ELSE {[id |-> handle, kind |-> "detect", video |-> isVideoOn]}

\* startEmotionDetection, called with the handle window.setInterval will
\* return: the interval it installs, none when the guard returns early.
\* The callback keeps isVideoOn of the render that created it.
startEmotionDetection(handle) ==
    IF ~mounted \/ ~modelLoaded THEN {}
    ELSE {[id |-> handle, kind |-> "detect", video |-> isVideoOn]}

\* new MediaRecorder(stream) before start()
newRecorder == [state |-> "recording", stops |-> 0]

\* What is known of a recorder's events when it starts: dataavailable
\* events fired, the numbers of those that carried data, the task it owes.
noEvents == [emitted |-> 0, data |-> <<>>, pending |-> "none"]

\* Mutant of startRecording: the stream guard is missing.
startRecording_NoStreamGuard ==
    /\ Len(recorders) < MaxStarts
    /\ LET timer == [id |-> nextHandle, kind |-> "timer", video |-> TRUE]
           detect == startEmotionDetection(nextHandle + 1)
       IN
        /\ chunksRef' = <<>>
        /\ recorders' = Append(recorders, newRecorder)
        /\ recEvents' = Append(recEvents, noEvents)
        /\ mediaRecorderRef' = Len(recorders) + 1
        /\ isRecording' = TRUE
        /\ timerRef' = nextHandle
        /\ emotionDetectionRef' =
              IF detect = {} THEN emotionDetectionRef ELSE nextHandle + 1
        /\ intervals' = (intervals \cup {timer}) \cup detect
        /\ nextHandle' = nextHandle + 1 + Cardinality(detect)
    /\ stopCalls' = 0
    /\ UNCHANGED <<variant, mounted, initPc, stream, classifier, isMuted,
                   isVideoOn, modelLoaded, loadingModel, recordingTime, emotions,
                   simRefreshes, ticks, trackFlags, toasts, route>>
    /\ UNCHANGED <<applied, recordedBlob>>

\* startRecording: it returns at once without a stream; otherwise it empties
\* chunksRef, creates and starts a MediaRecorder with its two handlers, sets
\* isRecording, installs the 1-second timer and calls startEmotionDetection.
\* Neither function tests isRecording or clears an interval that a ref
\* names: the refs are overwritten.
startRecording ==
    /\ stream # "none"
    /\ Len(recorders) < MaxStarts
    /\ LET timer == [id |-> nextHandle, kind |-> "timer", video |-> TRUE]
           detect == startEmotionDetection(nextHandle + 1)
       IN
        /\ chunksRef' = <<>>
        /\ recorders' = Append(recorders, newRecorder)
        /\ recEvents' = Append(recEvents, noEvents)
        /\ mediaRecorderRef' = Len(recorders) + 1
        /\ isRecording' = TRUE
        /\ timerRef' = nextHandle
        /\ emotionDetectionRef' =
              IF detect = {} THEN emotionDetectionRef ELSE nextHandle + 1
        /\ intervals' = (intervals \cup {timer}) \cup detect
        /\ nextHandle' = nextHandle + 1 + Cardinality(detect)
    /\ stopCalls' = 0
    /\ UNCHANGED <<variant, mounted, initPc, stream, classifier, isMuted,
                   isVideoOn, modelLoaded, loadingModel, recordingTime, emotions,
                   simRefreshes, ticks, trackFlags, toasts, route>>
    /\ UNCHANGED <<applied, recordedBlob>>

\* MediaRecorder.stop(): a recording recorder is inactive at once and owes
\* the task that fires dataavailable and stop; on an inactive recorder the
\* call returns without effect (MediaStream Recording, stop(), step 2).
\* stops counts the calls.
recorderStop(rs, r) ==
    [rs EXCEPT ![r] = [state |-> "inactive", stops |-> rs[r].stops + 1]]

\* The task stop() queues on recorder r.
stopTask(re, rs, r) ==
    IF rs[r].state = "recording" THEN [re EXCEPT ![r].pending = "stop"] ELSE re

\* Mutant of stopRecording: the 1-second timer is not cleared.
stopRecording_KeepsTimer(rendered) ==
    /\ stopCalls' = Min(stopCalls + 1, MaxStops)
    /\ IF mediaRecorderRef # 0 /\ rendered
       THEN /\ recorders' = recorderStop(recorders, mediaRecorderRef)
            /\ recEvents' = stopTask(recEvents, recorders, mediaRecorderRef)
            /\ isRecording' = FALSE
            /\ timerRef' = timerRef
            /\ emotionDetectionRef' = 0
            /\ intervals' = clearInterval(intervals, emotionDetectionRef)
            /\ toasts' = [toasts EXCEPT !.complete = @ + 1]
       ELSE UNCHANGED <<recorders, recEvents, isRecording, timerRef,
                        emotionDetectionRef, intervals, toasts>>
    /\ UNCHANGED <<variant, mounted, initPc, stream, classifier, isMuted,
                   isVideoOn, modelLoaded, loadingModel, recordingTime, emotions,
                   simRefreshes, mediaRecorderRef, nextHandle, ticks, trackFlags,
                   route>>
    /\ UNCHANGED <<applied, chunksRef, recordedBlob>>

\* stopRecording, the handler of a render in which isRecording was
\* `rendered`: with a recorder in the ref and that isRecording it calls
\* stop() on the recorder, clears isRecording and the intervals the two refs
\* name, sets the refs to null and shows the notice; otherwise it does
\* nothing.
stopRecording(rendered) ==
    /\ stopCalls' = Min(stopCalls + 1, MaxStops)
    /\ IF mediaRecorderRef # 0 /\ rendered
       THEN /\ recorders' = recorderStop(recorders, mediaRecorderRef)
            /\ recEvents' = stopTask(recEvents, recorders, mediaRecorderRef)
            /\ isRecording' = FALSE
            /\ timerRef' = 0
            /\ emotionDetectionRef' = 0
            /\ intervals' = clearInterval(clearInterval(intervals, timerRef),
                                          emotionDetectionRef)
            /\ toasts' = [toasts EXCEPT !.complete = @ + 1]
       ELSE UNCHANGED <<recorders, recEvents, isRecording, timerRef,
                        emotionDetectionRef, intervals, toasts>>
    /\ UNCHANGED <<variant, mounted, initPc, stream, classifier, isMuted,
                   isVideoOn, modelLoaded, loadingModel, recordingTime, emotions,
                   simRefreshes, mediaRecorderRef, nextHandle, ticks, trackFlags,
                   route>>
    /\ UNCHANGED <<applied, chunksRef, recordedBlob>>

\* A click on New Recording: setRecordedBlob(null); setRecordingTime(0).
newRecording ==
    /\ NewRecordingShown
    /\ recordedBlob' = NoBlob
    /\ recordingTime' = 0
    /\ UNCHANGED <<variant, mounted, initPc, stream, classifier, isRecording,
                   isMuted, isVideoOn, modelLoaded, loadingModel, emotions,
                   simRefreshes, refs, recorders, intervals, nextHandle, ticks,
                   trackFlags, toasts, route, stopCalls>>
    /\ UNCHANGED <<applied, chunksRef, recEvents>>

\* Mutant of toggleMute: the tracks get the opposite value.
toggleMute_WrongPolarity ==
    /\ mounted
    /\ stream # "none"
    /\ audioEnabled' = ~isMuted
    /\ isMuted' = ~isMuted
    /\ UNCHANGED <<variant, mounted, initPc, stream, classifier, isRecording,
                   isVideoOn, modelLoaded, loadingModel, recordingTime, emotions,
                   simRefreshes, refs, recorders, intervals, nextHandle, ticks,
                   videoEnabled, toasts, route, stopCalls>>

toggleMute ==
    /\ mounted
    /\ stream # "none"
    /\ audioEnabled' = isMuted
    /\ isMuted' = ~isMuted
    /\ UNCHANGED <<variant, mounted, initPc, stream, classifier, isRecording,
                   isVideoOn, modelLoaded, loadingModel, recordingTime, emotions,
                   simRefreshes, refs, recorders, intervals, nextHandle, ticks,
                   videoEnabled, toasts, route, stopCalls>>

toggleVideo ==
    /\ mounted
    /\ stream # "none"
    /\ videoEnabled' = ~isVideoOn
    /\ isVideoOn' = ~isVideoOn
    /\ UNCHANGED <<variant, mounted, initPc, stream, classifier, isRecording,
                   isMuted, modelLoaded, loadingModel, recordingTime, emotions,
                   simRefreshes, refs, recorders, intervals, nextHandle, ticks,
                   audioEnabled, toasts, route, stopCalls>>

----------------------------------------------------------------------------
(* The events of the MediaRecorders.                                       *)

\* Sizes of the data of a dataavailable event: empty, not empty.
Sizes == {0, 1}

\* ondataavailable: `if (event.data.size > 0) chunksRef.current.push(...)`.
\* A chunk is named by its recorder and the number of the event.
pushChunk(chunks, r, n, size) ==
    IF size > 0 THEN Append(chunks, [rec |-> r, n |-> n]) ELSE chunks

\* The dataavailable event of a timeslice of recorder r (start(1000))
\* arrives, which can be after stop() when it was queued before.
ondataavailable(r, size) ==
    /\ recEvents[r].pending # "done"
    /\ recEvents[r].emitted < MaxChunks
    /\ chunksRef' = pushChunk(chunksRef, r, recEvents[r].emitted + 1, size)
    /\ recEvents' = [recEvents EXCEPT
                        ![r].emitted = @ + 1,
                        ![r].data = IF size > 0
                                    THEN Append(@, recEvents[r].emitted + 1)
                                    ELSE @]
    /\ UNCHANGED <<pageVars, applied, recordedBlob>>

\* The task a recorder owes after stop() or after its tracks have ended:
\* the recorder is inactive, dataavailable fires with the last data, which
\* ondataavailable pushes when not empty, then stop fires and onstop stores
\* new Blob(chunksRef.current).
recorderStopTask(r, size) ==
    /\ recEvents[r].pending = "stop"
    /\ LET chunks == pushChunk(chunksRef, r, recEvents[r].emitted + 1, size) IN
        /\ chunksRef' = chunks
        /\ recordedBlob' = IF mounted THEN [rec |-> r, chunks |-> chunks]
                           ELSE recordedBlob
    /\ recEvents' = [recEvents EXCEPT
                        ![r].emitted = @ + 1,
                        ![r].data = IF size > 0
                                    THEN Append(@, recEvents[r].emitted + 1)
                                    ELSE @,
                        ![r].pending = "done"]
    /\ recorders' = [recorders EXCEPT ![r].state = "inactive"]
    /\ UNCHANGED <<variant, mounted, initPc, stream, classifier, reactState,
                   refs, intervals, nextHandle, ticks, trackFlags,
                   toasts, route, stopCalls, applied>>

----------------------------------------------------------------------------
(* The interval callbacks.                                                 *)

\* The 1-second timer fires: setRecordingTime(prev => prev + 1).
timerTick(iv) ==
    /\ iv.kind = "timer"
    /\ mounted
    /\ recordingTime < MaxTime
    /\ recordingTime' = recordingTime + 1
    /\ UNCHANGED <<variant, mounted, initPc, stream, classifier, isRecording,
                   isMuted, isVideoOn, modelLoaded, loadingModel, emotions,
                   simRefreshes, refs, recorders, intervals, nextHandle, ticks,
                   trackFlags, toasts, route, stopCalls>>

\* The detectEmotion modules the page can be built with, and the failures
\* of a detectEmotion call of theirs that happen before its first await.
PageModules == {m \in Modules : LoaderOf(m) = variant}
TickFailPoints == UNION {SyncFailPoints(m) : m \in PageModules}

\* The state a firing of a detection interval leaves the tick in.  When the
\* callback's guard (videoRef.current && isVideoOn) fails the tick is
\* "skipped".  Otherwise detectEmotion is called: a call that returns
\* without a handle or fails before its first await (failAt) resolves with
\* null and the callback has dropped it before any other task runs, "null";
\* else the tick is "inflight" until the awaited promise settles.  ran:
\* detectEmotion found a handle and started the forward pass.
tickStart(iv, failAt) ==
    IF mounted /\ iv.video
    THEN LET r == detectEmotion(classifier, failAt) IN
         [loop |-> iv.id,
          st |-> IF r.inferred /\ failAt = "none" THEN "inflight" ELSE "null",
          ran |-> r.inferred]
    ELSE [loop |-> iv.id, st |-> "skipped", ran |-> FALSE]

\* The 200 ms detection interval fires; a new period begins.
detectTick(iv, failAt) ==
    /\ iv.kind = "detect"
    /\ Len(ticks) < MaxTicks
    /\ ticks' = Append(ticks, tickStart(iv, failAt))
    /\ applied' = 0
    /\ UNCHANGED <<variant, mounted, initPc, stream, classifier, reactState,
                   refs, recorders, intervals, nextHandle, trackFlags,
                   toasts, route, stopCalls>>
    /\ UNCHANGED <<chunksRef, recordedBlob, recEvents>>

\* What the awaited promise of tick n settles the call with: a result, or
\* null (the promise rejected or the mapping threw, and the catch returned
\* null).
tickOutcome(n, ok) == IF ticks[n].ran /\ ok THEN "result" ELSE "null"

\* Mutant of tickResolve: a tick that ends in null stops the loop.
tickResolve_StopsOnNull(n, ok) ==
    /\ ticks[n].st = "inflight"
    /\ ticks' = [ticks EXCEPT ![n].st = tickOutcome(n, ok)]
    /\ IF tickOutcome(n, ok) = "result" /\ mounted
       THEN /\ emotions' = n
            /\ simRefreshes' = simRefreshes + 1
            /\ applied' = applied + 1
       ELSE UNCHANGED <<emotions, simRefreshes, applied>>
    /\ IF tickOutcome(n, ok) = "null"
       THEN /\ intervals' = clearInterval(intervals, emotionDetectionRef)
            /\ emotionDetectionRef' = 0
       ELSE UNCHANGED <<intervals, emotionDetectionRef>>
    /\ UNCHANGED <<variant, mounted, initPc, stream, classifier, isRecording,
                   isMuted, isVideoOn, modelLoaded, loadingModel, recordingTime,
                   mediaRecorderRef, timerRef, recorders, nextHandle, trackFlags,
                   toasts, route, stopCalls>>
    /\ UNCHANGED <<chunksRef, recordedBlob, recEvents>>

\* Mutant of tickResolve: a tick that ends in null turns the video off.
tickResolve_VideoOffOnNull(n, ok) ==
    /\ ticks[n].st = "inflight"
    /\ ticks' = [ticks EXCEPT ![n].st = tickOutcome(n, ok)]
    /\ IF tickOutcome(n, ok) = "result" /\ mounted
       THEN /\ emotions' = n
            /\ simRefreshes' = simRefreshes + 1
            /\ applied' = applied + 1
       ELSE UNCHANGED <<emotions, simRefreshes, applied>>
    /\ IF tickOutcome(n, ok) = "null"
       THEN isVideoOn' = FALSE /\ videoEnabled' = FALSE
       ELSE UNCHANGED <<isVideoOn, videoEnabled>>
    /\ UNCHANGED <<variant, mounted, initPc, stream, classifier, isRecording,
                   isMuted, modelLoaded, loadingModel, recordingTime,
                   refs, recorders, intervals, nextHandle, audioEnabled,
                   toasts, route, stopCalls>>
    /\ UNCHANGED <<chunksRef, recordedBlob, recEvents>>

\* The awaited detectEmotion call of tick n resolves and the callback goes
\* on: a result is written to the UI state and updateSimulatedAnalysis runs;
\* null is dropped.  applied counts the results written since the last
\* firing.
tickResolve(n, ok) ==
    /\ ticks[n].st = "inflight"
    /\ ticks' = [ticks EXCEPT ![n].st = tickOutcome(n, ok)]
    /\ IF tickOutcome(n, ok) = "result" /\ mounted
       THEN /\ emotions' = n
            /\ simRefreshes' = simRefreshes + 1
            /\ applied' = applied + 1
       ELSE UNCHANGED <<emotions, simRefreshes, applied>>
    /\ UNCHANGED <<variant, mounted, initPc, stream, classifier, isRecording,
                   isMuted, isVideoOn, modelLoaded, loadingModel, recordingTime,
                   refs, recorders, intervals, nextHandle, trackFlags,
                   toasts, route, stopCalls>>
    /\ UNCHANGED <<chunksRef, recordedBlob, recEvents>>

----------------------------------------------------------------------------

\* One more event of the page, while fewer than MaxEvents have been
\* followed.
countEvent == events < MaxEvents /\ events' = events + 1

\* An action of the page as one of its events, h the handler it called.
callEvent(h) == countEvent /\ lastCall' = h /\ UNCHANGED harnessVars

\* An event of the page driven through its buttons: no handler is held.
pageEvent == countEvent /\ UNCHANGED lastCall /\ UNCHANGED harnessVars

Next ==
    \/ pageEvent /\ cameraGranted /\ UNCHANGED recordingVars
    \/ pageEvent /\ cameraDenied /\ UNCHANGED recordingVars
    \/ \E fetchOk, warmOk \in BOOLEAN :
          pageEvent /\ loadReturns(fetchOk, warmOk) /\ UNCHANGED recordingVars
    \/ \E now \in BOOLEAN, to \in Leaves : pageEvent /\ unmount(now, to)
    \/ pageEvent /\ StartButtonEnabled /\ startRecording
    \/ pageEvent /\ StopButtonShown /\ stopRecording(isRecording)
    \/ pageEvent /\ newRecording
    \/ pageEvent /\ toggleMute /\ UNCHANGED recordingVars
    \/ pageEvent /\ toggleVideo /\ UNCHANGED recordingVars
    \/ \E iv \in intervals :
          pageEvent /\ timerTick(iv) /\ UNCHANGED recordingVars
    \/ \E iv \in intervals, failAt \in TickFailPoints :
          pageEvent /\ detectTick(iv, failAt)
    \/ \E n \in 1..Len(ticks), ok \in BOOLEAN : pageEvent /\ tickResolve(n, ok)
    \/ \E r \in 1..Len(recorders), size \in Sizes :
          pageEvent /\ ondataavailable(r, size)
    \/ \E r \in 1..Len(recorders), size \in Sizes :
          pageEvent /\ recorderStopTask(r, size)

Spec == Init /\ [][Next]_vars

----------------------------------------------------------------------------
(* The handlers called directly.  A caller that holds startRecording or    *)
(* stopRecording of a render calls the handler again before the page has   *)
(* rendered again: two calls in a row in one event, which a click cannot   *)
(* make because the button is replaced by the time the next click lands.   *)
(* The second call runs in the closure of the first: stopRecording reads   *)
(* the isRecording of its render, true, and nothing in startRecording      *)
(* depends on isRecording.                                                 *)

NextCalls ==
    \/ callEvent("none") /\ cameraGranted /\ UNCHANGED recordingVars
    \/ callEvent("none") /\ cameraDenied /\ UNCHANGED recordingVars
    \/ \E fetchOk, warmOk \in BOOLEAN :
          callEvent("none") /\ loadReturns(fetchOk, warmOk) /\ UNCHANGED recordingVars
    \/ \E now \in BOOLEAN, to \in Leaves : callEvent("none") /\ unmount(now, to)
    \/ callEvent("start") /\ StartButtonEnabled /\ startRecording
    \/ callEvent("start") /\ lastCall = "start" /\ startRecording
    \/ callEvent("stop") /\ StopButtonShown /\ stopRecording(isRecording)
    \/ callEvent("stop") /\ lastCall = "stop" /\ stopCalls < MaxStops
          /\ stopRecording(TRUE)
    \/ callEvent("none") /\ newRecording
    \/ callEvent("none") /\ toggleMute /\ UNCHANGED recordingVars
    \/ callEvent("none") /\ toggleVideo /\ UNCHANGED recordingVars
    \/ \E iv \in intervals :
          callEvent("none") /\ timerTick(iv) /\ UNCHANGED recordingVars
    \/ \E iv \in intervals, failAt \in TickFailPoints :
          callEvent("none") /\ detectTick(iv, failAt)
    \/ \E n \in 1..Len(ticks), ok \in BOOLEAN :
          callEvent("none") /\ tickResolve(n, ok)
    \/ \E r \in 1..Len(recorders), size \in Sizes :
          callEvent("none") /\ ondataavailable(r, size)
    \/ \E r \in 1..Len(recorders), size \in Sizes :
          callEvent("none") /\ recorderStopTask(r, size)

SpecCalls == Init /\ [][NextCalls]_vars

----------------------------------------------------------------------------
(* The adapter called on its own: loadEmotionDetectionModel and            *)
(* detectEmotion of utils/emotionDetection, in any order, on the           *)
(* module-level handle.                                                    *)

\* The state of the classifier handle as the calls made so far define it:
\* that of the most recent load call.
HandleState ==
    IF loadCalls = <<>> THEN "Unloaded"
    ELSE IF loadCalls[Len(loadCalls)] = "pending" THEN "Loading"
    ELSE IF loadCalls[Len(loadCalls)] = "true" THEN "Ready"
    ELSE "Failed"

\* A caller invokes loadEmotionDetectionModel().
callLoad ==
    /\ Len(loadCalls) < MaxLoads
    /\ loadCalls' = Append(loadCalls, "pending")
    /\ UNCHANGED <<pageVars, detects, mapVars, mountVars, tensorVars, simVars, recordingVars, events, lastCall>>

\* The awaited artifact promise of call k settles and the call returns.
loadSettles(k, fetchOk, warmOk) ==
    /\ loadCalls[k] = "pending"
    /\ LET r == loadEmotionDetectionModel(variant, fetchOk, warmOk, classifier) IN
        /\ classifier' = r.handle
        /\ loadCalls' = [loadCalls EXCEPT ![k] = IF r.ret THEN "true" ELSE "false"]
    /\ UNCHANGED <<mounted, variant, initPc, stream, reactState, refs, recorders,
                   intervals, nextHandle, ticks, trackFlags, toasts, route,
                   stopCalls, detects, mapVars, mountVars, tensorVars, simVars, recordingVars, events, lastCall>>

\* A caller invokes detectEmotion(videoElement): the call tests the handle,
\* captures the frame and starts the inference with the handle it found.
\* It has settled when it returns without a handle or when anything up to
\* and including a synchronous forward pass throws; otherwise its promise
\* is pending.
callDetect(failAt) ==
    /\ Len(detects) < MaxDetects
    /\ LET r == detectEmotion(classifier, failAt) IN
        detects' = Append(detects, [state |-> HandleState, failAt |-> failAt,
                                    inferred |-> r.inferred,
                                    out |-> IF r.inferred /\ failAt = "none"
                                            THEN "pending" ELSE r.out])
    /\ UNCHANGED <<pageVars, loadCalls, mapVars, mountVars, tensorVars, simVars, recordingVars, events, lastCall>>

\* The awaited inference of call i settles and the call returns: a result,
\* or null when the inference or the mapping of its output failed.
detectReturns(i, failAt) ==
    /\ detects[i].out = "pending"
    /\ detects' = [detects EXCEPT ![i].failAt = failAt,
                                  ![i].out = detectEmotion(1, failAt).out]
    /\ UNCHANGED <<pageVars, loadCalls, mapVars, mountVars, tensorVars, simVars, recordingVars, events, lastCall>>

NextAdapter ==
    \/ callLoad
    \/ \E k \in 1..Len(loadCalls), fetchOk, warmOk \in BOOLEAN :
          loadSettles(k, fetchOk, warmOk)
    \/ \E failAt \in SyncFailPoints(dv) : callDetect(failAt)
    \/ \E i \in 1..Len(detects), failAt \in AsyncFailPoints :
          detectReturns(i, failAt)

\* One of the four modules is in use, with its own loader.
InitAdapter ==
    /\ PageInit
    /\ AdapterIdle
    /\ NoMounts
    /\ TensorIdle
    /\ SimInit
    /\ RecordingInit
    /\ dv \in Modules
    /\ variant = LoaderOf(dv)
    /\ ucd = 17
    /\ input = <<>>
    /\ mapPc = "idle"
    /\ result = NoResult

SpecAdapter == InitAdapter /\ [][NextAdapter]_vars

----------------------------------------------------------------------------
(* From model output to DetectionResult.  A string is the sequence of its  *)
(* Unicode code points.  A score is kept as a whole number of units of     *)
(* 1/(2^21 * 5^4): the Float32 values k/2^21 of a model output and the     *)
(* decimals n/10^4 that toFixed(4) prints are both whole numbers of units, *)
(* so that rounding is computed on the exact binary value.  Scores lie     *)
(* between -1.6 and 1.6, where the units fit the integers of the checker.  *)

\* 2^-21 and 10^-4 in units.
Float32Step == 625
Decimal4Step == 131072

\* The versions of the Unicode Character Database that the engines running
\* the page carry: String.prototype.toLowerCase follows the data of the
\* engine, 16.0.0 or 17.0.0.
UcdVersions == {16, 17}

\* The simple lower-case mappings of version 16.0.0, as ranges
\* <<first, last, step, delta>>: the code points first, first + step, ...
\* last map to themselves plus delta.
LowerCaseRanges ==
 <<
    <<65, 90, 1, 32>>, <<192, 214, 1, 32>>, <<216, 222, 1, 32>>,
    <<256, 302, 2, 1>>, <<306, 310, 2, 1>>, <<313, 327, 2, 1>>,
    <<330, 374, 2, 1>>, <<376, 376, 1, -121>>, <<377, 381, 2, 1>>,
    <<385, 385, 1, 210>>, <<386, 388, 2, 1>>, <<390, 390, 1, 206>>,
    <<391, 391, 1, 1>>, <<393, 394, 1, 205>>, <<395, 395, 1, 1>>,
    <<398, 398, 1, 79>>, <<399, 399, 1, 202>>, <<400, 400, 1, 203>>,
    <<401, 401, 1, 1>>, <<403, 403, 1, 205>>, <<404, 404, 1, 207>>,
    <<406, 406, 1, 211>>, <<407, 407, 1, 209>>, <<408, 408, 1, 1>>,
    <<412, 412, 1, 211>>, <<413, 413, 1, 213>>, <<415, 415, 1, 214>>,
    <<416, 420, 2, 1>>, <<422, 422, 1, 218>>, <<423, 423, 1, 1>>,
    <<425, 425, 1, 218>>, <<428, 428, 1, 1>>, <<430, 430, 1, 218>>,
    <<431, 431, 1, 1>>, <<433, 434, 1, 217>>, <<435, 437, 2, 1>>,
    <<439, 439, 1, 219>>, <<440, 440, 1, 1>>, <<444, 444, 1, 1>>,
    <<452, 452, 1, 2>>, <<453, 453, 1, 1>>, <<455, 455, 1, 2>>,
    <<456, 456, 1, 1>>, <<458, 458, 1, 2>>, <<459, 475, 2, 1>>,
    <<478, 494, 2, 1>>, <<497, 497, 1, 2>>, <<498, 500, 2, 1>>,
    <<502, 502, 1, -97>>, <<503, 503, 1, -56>>, <<504, 542, 2, 1>>,
    <<544, 544, 1, -130>>, <<546, 562, 2, 1>>, <<570, 570, 1, 10795>>,
    <<571, 571, 1, 1>>, <<573, 573, 1, -163>>, <<574, 574, 1, 10792>>,
    <<577, 577, 1, 1>>, <<579, 579, 1, -195>>, <<580, 580, 1, 69>>,
    <<581, 581, 1, 71>>, <<582, 590, 2, 1>>, <<880, 882, 2, 1>>,
    <<886, 886, 1, 1>>, <<895, 895, 1, 116>>, <<902, 902, 1, 38>>,
    <<904, 906, 1, 37>>, <<908, 908, 1, 64>>, <<910, 911, 1, 63>>,
    <<913, 929, 1, 32>>, <<931, 939, 1, 32>>, <<975, 975, 1, 8>>,
    <<984, 1006, 2, 1>>, <<1012, 1012, 1, -60>>, <<1015, 1015, 1, 1>>,
    <<1017, 1017, 1, -7>>, <<1018, 1018, 1, 1>>, <<1021, 1023, 1, -130>>,
    <<1024, 1039, 1, 80>>, <<1040, 1071, 1, 32>>, <<1120, 1152, 2, 1>>,
    <<1162, 1214, 2, 1>>, <<1216, 1216, 1, 15>>, <<1217, 1229, 2, 1>>,
    <<1232, 1326, 2, 1>>, <<1329, 1366, 1, 48>>, <<4256, 4293, 1, 7264>>,
    <<4295, 4295, 1, 7264>>, <<4301, 4301, 1, 7264>>,
    <<5024, 5103, 1, 38864>>, <<5104, 5109, 1, 8>>, <<7305, 7305, 1, 1>>,
    <<7312, 7354, 1, -3008>>, <<7357, 7359, 1, -3008>>, <<7680, 7828, 2, 1>>,
    <<7838, 7838, 1, -7615>>, <<7840, 7934, 2, 1>>, <<7944, 7951, 1, -8>>,
    <<7960, 7965, 1, -8>>, <<7976, 7983, 1, -8>>, <<7992, 7999, 1, -8>>,
    <<8008, 8013, 1, -8>>, <<8025, 8031, 2, -8>>, <<8040, 8047, 1, -8>>,
    <<8072, 8079, 1, -8>>, <<8088, 8095, 1, -8>>, <<8104, 8111, 1, -8>>,
    <<8120, 8121, 1, -8>>, <<8122, 8123, 1, -74>>, <<8124, 8124, 1, -9>>,
    <<8136, 8139, 1, -86>>, <<8140, 8140, 1, -9>>, <<8152, 8153, 1, -8>>,
    <<8154, 8155, 1, -100>>, <<8168, 8169, 1, -8>>, <<8170, 8171, 1, -112>>,
    <<8172, 8172, 1, -7>>, <<8184, 8185, 1, -128>>, <<8186, 8187, 1, -126>>,
    <<8188, 8188, 1, -9>>, <<8486, 8486, 1, -7517>>, <<8490, 8490, 1, -8383>>,
    <<8491, 8491, 1, -8262>>, <<8498, 8498, 1, 28>>, <<8544, 8559, 1, 16>>,
    <<8579, 8579, 1, 1>>, <<9398, 9423, 1, 26>>, <<11264, 11311, 1, 48>>,
    <<11360, 11360, 1, 1>>, <<11362, 11362, 1, -10743>>,
    <<11363, 11363, 1, -3814>>, <<11364, 11364, 1, -10727>>,
    <<11367, 11371, 2, 1>>, <<11373, 11373, 1, -10780>>,
    <<11374, 11374, 1, -10749>>, <<11375, 11375, 1, -10783>>,
    <<11376, 11376, 1, -10782>>, <<11378, 11378, 1, 1>>,
    <<11381, 11381, 1, 1>>, <<11390, 11391, 1, -10815>>,
    <<11392, 11490, 2, 1>>, <<11499, 11501, 2, 1>>, <<11506, 11506, 1, 1>>,
    <<42560, 42604, 2, 1>>, <<42624, 42650, 2, 1>>, <<42786, 42798, 2, 1>>,
    <<42802, 42862, 2, 1>>, <<42873, 42875, 2, 1>>,
    <<42877, 42877, 1, -35332>>, <<42878, 42886, 2, 1>>,
    <<42891, 42891, 1, 1>>, <<42893, 42893, 1, -42280>>,
    <<42896, 42898, 2, 1>>, <<42902, 42920, 2, 1>>,
    <<42922, 42922, 1, -42308>>, <<42923, 42923, 1, -42319>>,
    <<42924, 42924, 1, -42315>>, <<42925, 42925, 1, -42305>>,
    <<42926, 42926, 1, -42308>>, <<42928, 42928, 1, -42258>>,
    <<42929, 42929, 1, -42282>>, <<42930, 42930, 1, -42261>>,
    <<42931, 42931, 1, 928>>, <<42932, 42946, 2, 1>>,
    <<42948, 42948, 1, -48>>, <<42949, 42949, 1, -42307>>,
    <<42950, 42950, 1, -35384>>, <<42951, 42953, 2, 1>>,
    <<42955, 42955, 1, -42343>>, <<42956, 42956, 1, 1>>,
    <<42960, 42960, 1, 1>>, <<42966, 42970, 2, 1>>,
    <<42972, 42972, 1, -42561>>, <<42997, 42997, 1, 1>>,
    <<65313, 65338, 1, 32>>, <<66560, 66599, 1, 40>>, <<66736, 66771, 1, 40>>,
    <<66928, 66938, 1, 39>>, <<66940, 66954, 1, 39>>, <<66956, 66962, 1, 39>>,
    <<66964, 66965, 1, 39>>, <<68736, 68786, 1, 64>>, <<68944, 68965, 1, 32>>,
    <<71840, 71871, 1, 32>>, <<93760, 93791, 1, 32>>,
    <<125184, 125217, 1, 34>>
 >>

\* The simple lower-case mappings that version 17.0.0 adds.
LowerCaseRanges17 ==
 <<
    <<42958, 42958, 1, 1>>, <<42962, 42964, 2, 1>>, <<93856, 93880, 1, 27>>
 >>

\* The code points with the property Cased in both versions, as ranges
\* <<first, last>>.
CasedRanges ==
 <<
    <<65, 90>>, <<97, 122>>, <<170, 170>>, <<181, 181>>, <<186, 186>>,
    <<192, 214>>, <<216, 246>>, <<248, 442>>, <<444, 447>>, <<452, 659>>,
    <<662, 696>>, <<704, 705>>, <<736, 740>>, <<837, 837>>, <<880, 883>>,
    <<886, 887>>, <<890, 893>>, <<895, 895>>, <<902, 902>>, <<904, 906>>,
    <<908, 908>>, <<910, 929>>, <<931, 1013>>, <<1015, 1153>>, <<1162, 1327>>,
    <<1329, 1366>>, <<1376, 1416>>, <<4256, 4293>>, <<4295, 4295>>,
    <<4301, 4301>>, <<4304, 4346>>, <<4348, 4351>>, <<5024, 5109>>,
    <<5112, 5117>>, <<7296, 7306>>, <<7312, 7354>>, <<7357, 7359>>,
    <<7424, 7615>>, <<7680, 7957>>, <<7960, 7965>>, <<7968, 8005>>,
    <<8008, 8013>>, <<8016, 8023>>, <<8025, 8025>>, <<8027, 8027>>,
    <<8029, 8029>>, <<8031, 8061>>, <<8064, 8116>>, <<8118, 8124>>,
    <<8126, 8126>>, <<8130, 8132>>, <<8134, 8140>>, <<8144, 8147>>,
    <<8150, 8155>>, <<8160, 8172>>, <<8178, 8180>>, <<8182, 8188>>,
    <<8305, 8305>>, <<8319, 8319>>, <<8336, 8348>>, <<8450, 8450>>,
    <<8455, 8455>>, <<8458, 8467>>, <<8469, 8469>>, <<8473, 8477>>,
    <<8484, 8484>>, <<8486, 8486>>, <<8488, 8488>>, <<8490, 8493>>,
    <<8495, 8500>>, <<8505, 8505>>, <<8508, 8511>>, <<8517, 8521>>,
    <<8526, 8526>>, <<8544, 8575>>, <<8579, 8580>>, <<9398, 9449>>,
    <<11264, 11492>>, <<11499, 11502>>, <<11506, 11507>>, <<11520, 11557>>,
    <<11559, 11559>>, <<11565, 11565>>, <<42560, 42605>>, <<42624, 42653>>,
    <<42786, 42887>>, <<42891, 42894>>, <<42896, 42957>>, <<42960, 42961>>,
    <<42963, 42963>>, <<42965, 42972>>, <<42994, 42998>>, <<43000, 43002>>,
    <<43824, 43866>>, <<43868, 43881>>, <<43888, 43967>>, <<64256, 64262>>,
    <<64275, 64279>>, <<65313, 65338>>, <<65345, 65370>>, <<66560, 66639>>,
    <<66736, 66771>>, <<66776, 66811>>, <<66928, 66938>>, <<66940, 66954>>,
    <<66956, 66962>>, <<66964, 66965>>, <<66967, 66977>>, <<66979, 66993>>,
    <<66995, 67001>>, <<67003, 67004>>, <<67456, 67456>>, <<67459, 67461>>,
    <<67463, 67504>>, <<67506, 67514>>, <<68736, 68786>>, <<68800, 68850>>,
    <<68944, 68965>>, <<68976, 68997>>, <<71840, 71903>>, <<93760, 93823>>,
    <<119808, 119892>>, <<119894, 119964>>, <<119966, 119967>>,
    <<119970, 119970>>, <<119973, 119974>>, <<119977, 119980>>,
    <<119982, 119993>>, <<119995, 119995>>, <<119997, 120003>>,
    <<120005, 120069>>, <<120071, 120074>>, <<120077, 120084>>,
    <<120086, 120092>>, <<120094, 120121>>, <<120123, 120126>>,
    <<120128, 120132>>, <<120134, 120134>>, <<120138, 120144>>,
    <<120146, 120485>>, <<120488, 120512>>, <<120514, 120538>>,
    <<120540, 120570>>, <<120572, 120596>>, <<120598, 120628>>,
    <<120630, 120654>>, <<120656, 120686>>, <<120688, 120712>>,
    <<120714, 120744>>, <<120746, 120770>>, <<120772, 120779>>,
    <<122624, 122633>>, <<122635, 122654>>, <<122661, 122666>>,
    <<122928, 122989>>, <<125184, 125251>>, <<127280, 127305>>,
    <<127312, 127337>>, <<127344, 127369>>
 >>

\* The code points Cased in version 16.0.0 only: U+0295, a lower-case
\* letter there and a letter without case in 17.0.0.
CasedRanges16 ==
 <<
    <<661, 661>>
 >>

\* The code points Cased in version 17.0.0 only.
CasedRanges17 ==
 <<
    <<42958, 42959>>, <<42962, 42962>>, <<42964, 42964>>, <<42993, 42993>>,
    <<93856, 93880>>, <<93883, 93907>>
 >>

\* The code points with the property Case_Ignorable in version 16.0.0, as
\* ranges.
CaseIgnorableRanges ==
 <<
    <<39, 39>>, <<46, 46>>, <<58, 58>>, <<94, 94>>, <<96, 96>>, <<168, 168>>,
    <<173, 173>>, <<175, 175>>, <<180, 180>>, <<183, 184>>, <<688, 879>>,
    <<884, 885>>, <<890, 890>>, <<900, 901>>, <<903, 903>>, <<1155, 1161>>,
    <<1369, 1369>>, <<1375, 1375>>, <<1425, 1469>>, <<1471, 1471>>,
    <<1473, 1474>>, <<1476, 1477>>, <<1479, 1479>>, <<1524, 1524>>,
    <<1536, 1541>>, <<1552, 1562>>, <<1564, 1564>>, <<1600, 1600>>,
    <<1611, 1631>>, <<1648, 1648>>, <<1750, 1757>>, <<1759, 1768>>,
    <<1770, 1773>>, <<1807, 1807>>, <<1809, 1809>>, <<1840, 1866>>,
    <<1958, 1968>>, <<2027, 2037>>, <<2042, 2042>>, <<2045, 2045>>,
    <<2070, 2093>>, <<2137, 2139>>, <<2184, 2184>>, <<2192, 2193>>,
    <<2199, 2207>>, <<2249, 2306>>, <<2362, 2362>>, <<2364, 2364>>,
    <<2369, 2376>>, <<2381, 2381>>, <<2385, 2391>>, <<2402, 2403>>,
    <<2417, 2417>>, <<2433, 2433>>, <<2492, 2492>>, <<2497, 2500>>,
    <<2509, 2509>>, <<2530, 2531>>, <<2558, 2558>>, <<2561, 2562>>,
    <<2620, 2620>>, <<2625, 2626>>, <<2631, 2632>>, <<2635, 2637>>,
    <<2641, 2641>>, <<2672, 2673>>, <<2677, 2677>>, <<2689, 2690>>,
    <<2748, 2748>>, <<2753, 2757>>, <<2759, 2760>>, <<2765, 2765>>,
    <<2786, 2787>>, <<2810, 2815>>, <<2817, 2817>>, <<2876, 2876>>,
    <<2879, 2879>>, <<2881, 2884>>, <<2893, 2893>>, <<2901, 2902>>,
    <<2914, 2915>>, <<2946, 2946>>, <<3008, 3008>>, <<3021, 3021>>,
    <<3072, 3072>>, <<3076, 3076>>, <<3132, 3132>>, <<3134, 3136>>,
    <<3142, 3144>>, <<3146, 3149>>, <<3157, 3158>>, <<3170, 3171>>,
    <<3201, 3201>>, <<3260, 3260>>, <<3263, 3263>>, <<3270, 3270>>,
    <<3276, 3277>>, <<3298, 3299>>, <<3328, 3329>>, <<3387, 3388>>,
    <<3393, 3396>>, <<3405, 3405>>, <<3426, 3427>>, <<3457, 3457>>,
    <<3530, 3530>>, <<3538, 3540>>, <<3542, 3542>>, <<3633, 3633>>,
    <<3636, 3642>>, <<3654, 3662>>, <<3761, 3761>>, <<3764, 3772>>,
    <<3782, 3782>>, <<3784, 3790>>, <<3864, 3865>>, <<3893, 3893>>,
    <<3895, 3895>>, <<3897, 3897>>, <<3953, 3966>>, <<3968, 3972>>,
    <<3974, 3975>>, <<3981, 3991>>, <<3993, 4028>>, <<4038, 4038>>,
    <<4141, 4144>>, <<4146, 4151>>, <<4153, 4154>>, <<4157, 4158>>,
    <<4184, 4185>>, <<4190, 4192>>, <<4209, 4212>>, <<4226, 4226>>,
    <<4229, 4230>>, <<4237, 4237>>, <<4253, 4253>>, <<4348, 4348>>,
    <<4957, 4959>>, <<5906, 5908>>, <<5938, 5939>>, <<5970, 5971>>,
    <<6002, 6003>>, <<6068, 6069>>, <<6071, 6077>>, <<6086, 6086>>,
    <<6089, 6099>>, <<6103, 6103>>, <<6109, 6109>>, <<6155, 6159>>,
    <<6211, 6211>>, <<6277, 6278>>, <<6313, 6313>>, <<6432, 6434>>,
    <<6439, 6440>>, <<6450, 6450>>, <<6457, 6459>>, <<6679, 6680>>,
    <<6683, 6683>>, <<6742, 6742>>, <<6744, 6750>>, <<6752, 6752>>,
    <<6754, 6754>>, <<6757, 6764>>, <<6771, 6780>>, <<6783, 6783>>,
    <<6823, 6823>>, <<6832, 6862>>, <<6912, 6915>>, <<6964, 6964>>,
    <<6966, 6970>>, <<6972, 6972>>, <<6978, 6978>>, <<7019, 7027>>,
    <<7040, 7041>>, <<7074, 7077>>, <<7080, 7081>>, <<7083, 7085>>,
    <<7142, 7142>>, <<7144, 7145>>, <<7149, 7149>>, <<7151, 7153>>,
    <<7212, 7219>>, <<7222, 7223>>, <<7288, 7293>>, <<7376, 7378>>,
    <<7380, 7392>>, <<7394, 7400>>, <<7405, 7405>>, <<7412, 7412>>,
    <<7416, 7417>>, <<7468, 7530>>, <<7544, 7544>>, <<7579, 7679>>,
    <<8125, 8125>>, <<8127, 8129>>, <<8141, 8143>>, <<8157, 8159>>,
    <<8173, 8175>>, <<8189, 8190>>, <<8203, 8207>>, <<8216, 8217>>,
    <<8228, 8228>>, <<8231, 8231>>, <<8234, 8238>>, <<8288, 8292>>,
    <<8294, 8303>>, <<8305, 8305>>, <<8319, 8319>>, <<8336, 8348>>,
    <<8400, 8432>>, <<11388, 11389>>, <<11503, 11505>>, <<11631, 11631>>,
    <<11647, 11647>>, <<11744, 11775>>, <<11823, 11823>>, <<12293, 12293>>,
    <<12330, 12333>>, <<12337, 12341>>, <<12347, 12347>>, <<12441, 12446>>,
    <<12540, 12542>>, <<40981, 40981>>, <<42232, 42237>>, <<42508, 42508>>,
    <<42607, 42610>>, <<42612, 42621>>, <<42623, 42623>>, <<42652, 42655>>,
    <<42736, 42737>>, <<42752, 42785>>, <<42864, 42864>>, <<42888, 42890>>,
    <<42994, 42996>>, <<43000, 43001>>, <<43010, 43010>>, <<43014, 43014>>,
    <<43019, 43019>>, <<43045, 43046>>, <<43052, 43052>>, <<43204, 43205>>,
    <<43232, 43249>>, <<43263, 43263>>, <<43302, 43309>>, <<43335, 43345>>,
    <<43392, 43394>>, <<43443, 43443>>, <<43446, 43449>>, <<43452, 43453>>,
    <<43471, 43471>>, <<43493, 43494>>, <<43561, 43566>>, <<43569, 43570>>,
    <<43573, 43574>>, <<43587, 43587>>, <<43596, 43596>>, <<43632, 43632>>,
    <<43644, 43644>>, <<43696, 43696>>, <<43698, 43700>>, <<43703, 43704>>,
    <<43710, 43711>>, <<43713, 43713>>, <<43741, 43741>>, <<43756, 43757>>,
    <<43763, 43764>>, <<43766, 43766>>, <<43867, 43871>>, <<43881, 43883>>,
    <<44005, 44005>>, <<44008, 44008>>, <<44013, 44013>>, <<64286, 64286>>,
    <<64434, 64450>>, <<65024, 65039>>, <<65043, 65043>>, <<65056, 65071>>,
    <<65106, 65106>>, <<65109, 65109>>, <<65279, 65279>>, <<65287, 65287>>,
    <<65294, 65294>>, <<65306, 65306>>, <<65342, 65342>>, <<65344, 65344>>,
    <<65392, 65392>>, <<65438, 65439>>, <<65507, 65507>>, <<65529, 65531>>,
    <<66045, 66045>>, <<66272, 66272>>, <<66422, 66426>>, <<67456, 67461>>,
    <<67463, 67504>>, <<67506, 67514>>, <<68097, 68099>>, <<68101, 68102>>,
    <<68108, 68111>>, <<68152, 68154>>, <<68159, 68159>>, <<68325, 68326>>,
    <<68900, 68903>>, <<68942, 68942>>, <<68969, 68973>>, <<68975, 68975>>,
    <<69291, 69292>>, <<69372, 69375>>, <<69446, 69456>>, <<69506, 69509>>,
    <<69633, 69633>>, <<69688, 69702>>, <<69744, 69744>>, <<69747, 69748>>,
    <<69759, 69761>>, <<69811, 69814>>, <<69817, 69818>>, <<69821, 69821>>,
    <<69826, 69826>>, <<69837, 69837>>, <<69888, 69890>>, <<69927, 69931>>,
    <<69933, 69940>>, <<70003, 70003>>, <<70016, 70017>>, <<70070, 70078>>,
    <<70089, 70092>>, <<70095, 70095>>, <<70191, 70193>>, <<70196, 70196>>,
    <<70198, 70199>>, <<70206, 70206>>, <<70209, 70209>>, <<70367, 70367>>,
    <<70371, 70378>>, <<70400, 70401>>, <<70459, 70460>>, <<70464, 70464>>,
    <<70502, 70508>>, <<70512, 70516>>, <<70587, 70592>>, <<70606, 70606>>,
    <<70608, 70608>>, <<70610, 70610>>, <<70625, 70626>>, <<70712, 70719>>,
    <<70722, 70724>>, <<70726, 70726>>, <<70750, 70750>>, <<70835, 70840>>,
    <<70842, 70842>>, <<70847, 70848>>, <<70850, 70851>>, <<71090, 71093>>,
    <<71100, 71101>>, <<71103, 71104>>, <<71132, 71133>>, <<71219, 71226>>,
    <<71229, 71229>>, <<71231, 71232>>, <<71339, 71339>>, <<71341, 71341>>,
    <<71344, 71349>>, <<71351, 71351>>, <<71453, 71453>>, <<71455, 71455>>,
    <<71458, 71461>>, <<71463, 71467>>, <<71727, 71735>>, <<71737, 71738>>,
    <<71995, 71996>>, <<71998, 71998>>, <<72003, 72003>>, <<72148, 72151>>,
    <<72154, 72155>>, <<72160, 72160>>, <<72193, 72202>>, <<72243, 72248>>,
    <<72251, 72254>>, <<72263, 72263>>, <<72273, 72278>>, <<72281, 72283>>,
    <<72330, 72342>>, <<72344, 72345>>, <<72752, 72758>>, <<72760, 72765>>,
    <<72767, 72767>>, <<72850, 72871>>, <<72874, 72880>>, <<72882, 72883>>,
    <<72885, 72886>>, <<73009, 73014>>, <<73018, 73018>>, <<73020, 73021>>,
    <<73023, 73029>>, <<73031, 73031>>, <<73104, 73105>>, <<73109, 73109>>,
    <<73111, 73111>>, <<73459, 73460>>, <<73472, 73473>>, <<73526, 73530>>,
    <<73536, 73536>>, <<73538, 73538>>, <<73562, 73562>>, <<78896, 78912>>,
    <<78919, 78933>>, <<90398, 90409>>, <<90413, 90415>>, <<92912, 92916>>,
    <<92976, 92982>>, <<92992, 92995>>, <<93504, 93506>>, <<93547, 93548>>,
    <<94031, 94031>>, <<94095, 94111>>, <<94176, 94177>>, <<94179, 94180>>,
    <<110576, 110579>>, <<110581, 110587>>, <<110589, 110590>>,
    <<113821, 113822>>, <<113824, 113827>>, <<118528, 118573>>,
    <<118576, 118598>>, <<119143, 119145>>, <<119155, 119170>>,
    <<119173, 119179>>, <<119210, 119213>>, <<119362, 119364>>,
    <<121344, 121398>>, <<121403, 121452>>, <<121461, 121461>>,
    <<121476, 121476>>, <<121499, 121503>>, <<121505, 121519>>,
    <<122880, 122886>>, <<122888, 122904>>, <<122907, 122913>>,
    <<122915, 122916>>, <<122918, 122922>>, <<122928, 122989>>,
    <<123023, 123023>>, <<123184, 123197>>, <<123566, 123566>>,
    <<123628, 123631>>, <<124139, 124143>>, <<124398, 124399>>,
    <<125136, 125142>>, <<125252, 125259>>, <<127995, 127999>>,
    <<917505, 917505>>, <<917536, 917631>>, <<917760, 917999>>
 >>

\* The code points with the property Case_Ignorable that version 17.0.0
\* adds.
CaseIgnorableRanges17 ==
 <<
    <<6863, 6877>>, <<6880, 6891>>, <<42993, 42993>>, <<69317, 69317>>,
    <<69370, 69371>>, <<72544, 72544>>, <<72546, 72548>>, <<72550, 72550>>,
    <<73177, 73177>>, <<94194, 94195>>, <<124643, 124643>>,
    <<124646, 124646>>, <<124654, 124655>>, <<124661, 124661>>,
    <<124671, 124671>>
 >>

Cased(c) ==
    \/ \E i \in DOMAIN CasedRanges : CasedRanges[i][1] <= c /\ c <= CasedRanges[i][2]
    \/ /\ ucd = 16
       /\ \E i \in DOMAIN CasedRanges16 :
             CasedRanges16[i][1] <= c /\ c <= CasedRanges16[i][2]
    \/ /\ ucd = 17
       /\ \E i \in DOMAIN CasedRanges17 :
             CasedRanges17[i][1] <= c /\ c <= CasedRanges17[i][2]

CaseIgnorable(c) ==
    \/ \E i \in DOMAIN CaseIgnorableRanges :
          CaseIgnorableRanges[i][1] <= c /\ c <= CaseIgnorableRanges[i][2]
    \/ /\ ucd = 17
       /\ \E i \in DOMAIN CaseIgnorableRanges17 :
             CaseIgnorableRanges17[i][1] <= c /\ c <= CaseIgnorableRanges17[i][2]

\* The simple lower-case mappings of version 17.0.0: those of 16.0.0, then
\* the added ones.
LowerCaseTable == LowerCaseRanges \o LowerCaseRanges17

\* The range of LowerCaseTable that holds c among those of the engine's
\* version, 0 when there is none.  Below U+00C0 the only range is A-Z, the
\* first one.
LowerCaseRange(c) ==
    IF c < 192 THEN (IF 65 <= c /\ c <= 90 THEN 1 ELSE 0)
    ELSE LET known == 1..(IF ucd = 17 THEN Len(LowerCaseTable)
                                     ELSE Len(LowerCaseRanges))
             Holds(i) == /\ LowerCaseTable[i][1] <= c
                         /\ c <= LowerCaseTable[i][2]
                         /\ (c - LowerCaseTable[i][1]) % LowerCaseTable[i][3] = 0
         IN IF \E i \in known : Holds(i)
            THEN CHOOSE i \in known : Holds(i)
            ELSE 0

\* The condition Final_Sigma of the Unicode standard for the capital sigma
\* at position i: going back over case-ignorable characters there is a
\* cased letter, and going forward over them there is none.
FinalSigma(str, i) ==
    /\ \E j \in 1..(i - 1) :
          /\ Cased(str[j]) /\ ~CaseIgnorable(str[j])
          /\ \A k \in (j + 1)..(i - 1) : CaseIgnorable(str[k])
    /\ ~\E j \in (i + 1)..Len(str) :
          /\ Cased(str[j]) /\ ~CaseIgnorable(str[j])
          /\ \A k \in (i + 1)..(j - 1) : CaseIgnorable(str[k])

\* The lower-case form of the character at position i of str: U+0130
\* becomes U+0069 U+0307, the capital sigma U+03A3 becomes the final sigma
\* U+03C2 under Final_Sigma (and U+03C3 otherwise, by the table), every
\* other character follows its simple mapping.
lowerCaseAt(str, i) ==
    LET c == str[i]
        r == LowerCaseRange(c)
    IN IF c = 304 THEN <<105, 775>>
       ELSE IF c = 931 /\ FinalSigma(str, i) THEN <<962>>
       ELSE IF r = 0 THEN <<c>>
       ELSE <<c + LowerCaseTable[r][4]>>

RECURSIVE lowerCaseFrom(_, _)
lowerCaseFrom(str, i) ==
    IF i > Len(str) THEN <<>>
    ELSE lowerCaseAt(str, i) \o lowerCaseFrom(str, i + 1)

\* String.prototype.toLowerCase: the Unicode default case conversion, which
\* does not depend on the locale, by the case data the engine carries.
toLowerCase(str) == lowerCaseFrom(str, 1)

\* String.prototype.includes
includes(str, sub) ==
    \E i \in 0..(Len(str) - Len(sub)) : SubSeq(str, i + 1, i + Len(sub)) = sub

happy == <<104, 97, 112, 112, 121>>  \* "happy"
neutral == <<110, 101, 117, 116, 114, 97, 108>>  \* "neutral"
surprised == <<115, 117, 114, 112, 114, 105, 115, 101, 100>>  \* "surprised"
surprise == <<115, 117, 114, 112, 114, 105, 115, 101>>  \* "surprise"
sad == <<115, 97, 100>>  \* "sad"
angry == <<97, 110, 103, 114, 121>>  \* "angry"
anger == <<97, 110, 103, 101, 114>>  \* "anger"
disgust == <<100, 105, 115, 103, 117, 115, 116>>  \* "disgust"
fear == <<102, 101, 97, 114>>  \* "fear"

\* The keys of the result object literal of mapEmotionsToUIFormat, in the
\* order Object.entries and Object.keys list them.
ResultKeys == <<happy, neutral, surprised, sad, angry, disgust, fear>>

\* EMOTION_LABELS of the tfjs modules and UI_EMOTION_KEYS of the later one.
EMOTION_LABELS ==
    << <<65, 110, 103, 114, 121>>,                \* "Angry"
       <<68, 105, 115, 103, 117, 115, 116>>,      \* "Disgust"
       <<70, 101, 97, 114>>,                      \* "Fear"
       <<72, 97, 112, 112, 121>>,                 \* "Happy"
       <<83, 97, 100>>,                           \* "Sad"
       <<83, 117, 114, 112, 114, 105, 115, 101>>, \* "Surprise"
       <<78, 101, 117, 116, 114, 97, 108>> >>     \* "Neutral"
UI_EMOTION_KEYS == <<angry, disgust, fear, happy, sad, surprised, neutral>>

Range(f) == {f[i] : i \in DOMAIN f}

\* const result = { happy: 0, neutral: 0, ... }
ZeroVector == [k \in Range(ResultKeys) |-> 0]

\* assignPrediction without the toLowerCase call.
assignPrediction_CaseSensitive(res, prediction) ==
    LET emotion == prediction.label IN
    IF includes(emotion, happy) THEN [res EXCEPT ![happy] = prediction.score]
    ELSE IF includes(emotion, neutral) THEN [res EXCEPT ![neutral] = prediction.score]
    ELSE IF includes(emotion, surprise) THEN [res EXCEPT ![surprised] = prediction.score]
    ELSE IF includes(emotion, sad) THEN [res EXCEPT ![sad] = prediction.score]
    ELSE IF includes(emotion, angry) \/ includes(emotion, anger)
         THEN [res EXCEPT ![angry] = prediction.score]
    ELSE IF includes(emotion, disgust) THEN [res EXCEPT ![disgust] = prediction.score]
    ELSE IF includes(emotion, fear) THEN [res EXCEPT ![fear] = prediction.score]
    ELSE res

\* assignPrediction that keeps a score already stored under the key.
assignPrediction_FirstWins(res, prediction) ==
    LET emotion == toLowerCase(prediction.label)
        key == IF includes(emotion, happy) THEN happy
               ELSE IF includes(emotion, neutral) THEN neutral
               ELSE IF includes(emotion, surprise) THEN surprised
               ELSE IF includes(emotion, sad) THEN sad
               ELSE IF includes(emotion, angry) \/ includes(emotion, anger) THEN angry
               ELSE IF includes(emotion, disgust) THEN disgust
               ELSE IF includes(emotion, fear) THEN fear
               ELSE <<>>
    IN IF key = <<>> \/ res[key] # 0 THEN res
       ELSE [res EXCEPT ![key] = prediction.score]

\* The body of predictions.forEach in mapEmotionsToUIFormat (pipeline
\* module): the first branch of the if-else chain whose substring test
\* passes stores the score.
assignPrediction(res, prediction) ==
    LET emotion == toLowerCase(prediction.label) IN
    IF includes(emotion, happy) THEN [res EXCEPT ![happy] = prediction.score]
    ELSE IF includes(emotion, neutral) THEN [res EXCEPT ![neutral] = prediction.score]
    ELSE IF includes(emotion, surprise) THEN [res EXCEPT ![surprised] = prediction.score]
    ELSE IF includes(emotion, sad) THEN [res EXCEPT ![sad] = prediction.score]
    ELSE IF includes(emotion, angry) \/ includes(emotion, anger)
         THEN [res EXCEPT ![angry] = prediction.score]
    ELSE IF includes(emotion, disgust) THEN [res EXCEPT ![disgust] = prediction.score]
    ELSE IF includes(emotion, fear) THEN [res EXCEPT ![fear] = prediction.score]
    ELSE res

RECURSIVE forEachPrediction(_, _)
forEachPrediction(res, predictions) ==
    IF predictions = <<>> THEN res
    ELSE forEachPrediction(assignPrediction(res, Head(predictions)),
                           Tail(predictions))

\* mapEmotionsToUIFormat(predictions) of the pipeline module.
mapEmotionsToUIFormat(predictions) == forEachPrediction(ZeroVector, predictions)

\* The loop over Object.entries(formattedEmotions) that keeps the first
\* entry with a strictly greater score, starting from neutral with score 0.
RECURSIVE findTop(_, _, _)
findTop(top, formatted, keys) ==
    IF keys = <<>> THEN top
    ELSE findTop(IF formatted[Head(keys)] > top.score
                 THEN [emotion |-> Head(keys), score |-> formatted[Head(keys)]]
                 ELSE top,
                 formatted, Tail(keys))

\* detectEmotion of the pipeline module, after the awaited inference.
detectResultPipeline(predictions) ==
    LET formatted == mapEmotionsToUIFormat(predictions)
        top == findTop([emotion |-> neutral, score |-> 0], formatted, ResultKeys)
    IN [emotion |-> top.emotion, confidence |-> top.score, allEmotions |-> formatted]

\* Array.prototype.sort((a, b) => b.score - a.score): stable, highest first.
RECURSIVE insertByScore(_, _)
insertByScore(sorted, item) ==
    IF sorted = <<>> THEN <<item>>
    ELSE IF Head(sorted).score >= item.score
         THEN <<Head(sorted)>> \o insertByScore(Tail(sorted), item)
         ELSE <<item>> \o sorted

RECURSIVE sortByScore(_)
sortByScore(items) ==
    IF items = <<>> THEN <<>>
    ELSE insertByScore(sortByScore(SubSeq(items, 1, Len(items) - 1)),
                       items[Len(items)])

\* parseFloat(score.toFixed(4)): the multiple of 0.0001 nearest to the exact
\* value of score, the one farther from zero when two are equally near
\* (Number.prototype.toFixed rounds the magnitude and puts the sign back).
toFixed4(score) ==
    LET magnitude == IF score < 0 THEN -score ELSE score
        rounded == ((magnitude + Decimal4Step \div 2) \div Decimal4Step) * Decimal4Step
    IN IF score < 0 THEN -rounded ELSE rounded

\* detectEmotion of the first tfjs module (unnamed/part_001:60-122), after
\* the awaited inference: emotion is the model label as it is, the keys of
\* the vector are the lower-cased labels, no score is rounded.
detectResultTfRaw(emotionScores) ==
    LET emotionsWithScores ==
            [i \in 1..Len(EMOTION_LABELS) |->
                [emotion |-> EMOTION_LABELS[i], score |-> emotionScores[i]]]
        sorted == sortByScore(emotionsWithScores)
        allEmotions ==
            [k \in {toLowerCase(e.emotion) : e \in Range(emotionsWithScores)} |->
                (CHOOSE e \in Range(emotionsWithScores) :
                    toLowerCase(e.emotion) = k).score]
    IN [emotion |-> sorted[1].emotion, confidence |-> sorted[1].score,
        allEmotions |-> allEmotions]

\* detectEmotion of the tfjs module with rounding (unnamed/part_000), after
\* the awaited inference: keys are the lower-cased model labels, the vector
\* holds rounded scores, confidence the score as the model gave it.
detectResultTf(emotionScores) ==
    LET emotionsWithScores ==
            [i \in 1..Len(EMOTION_LABELS) |->
                [emotion |-> toLowerCase(EMOTION_LABELS[i]),
                 score |-> emotionScores[i]]]
        sorted == sortByScore(emotionsWithScores)
        allEmotions ==
            [k \in {toLowerCase(e.emotion) : e \in Range(emotionsWithScores)} |->
                toFixed4((CHOOSE e \in Range(emotionsWithScores) :
                             toLowerCase(e.emotion) = k).score)]
    IN [emotion |-> sorted[1].emotion, confidence |-> sorted[1].score,
        allEmotions |-> allEmotions]

\* mapEmotionsToUIFormat(emotionScores) of the later tfjs module
\* (unnamed/part_001:184-220): score i goes to UI_EMOTION_KEYS[i].
mapEmotionsToUIFormatScores(emotionScores) ==
    [k \in Range(ResultKeys) |->
        IF \E i \in 1..Len(EMOTION_LABELS) : UI_EMOTION_KEYS[i] = k
        THEN emotionScores[CHOOSE i \in 1..Len(EMOTION_LABELS) : UI_EMOTION_KEYS[i] = k]
        ELSE 0]

\* detectEmotion of the later tfjs module, after the awaited inference.
detectResultTfMap(emotionScores) ==
    LET formatted == mapEmotionsToUIFormatScores(emotionScores)
        sorted == sortByScore([i \in 1..Len(ResultKeys) |->
                      [emotion |-> ResultKeys[i], score |-> formatted[ResultKeys[i]]]])
    IN [emotion |-> sorted[1].emotion, confidence |-> sorted[1].score,
        allEmotions |-> formatted]

detectResult(v, in) ==
    IF v = "hf" THEN detectResultPipeline(in)
    ELSE IF v = "tfraw" THEN detectResultTfRaw(in)
    ELSE IF v = "tf" THEN detectResultTf(in)
    ELSE detectResultTfMap(in)

\* Model outputs followed.  Labels of the pipeline model: class names in
\* mixed and lower case, two words for anger, a label with no synonym and
\* a label that contains two synonyms.
Labels ==
    { <<72, 97, 112, 112, 121>>,                  \* "Happy"
      surprise,
      <<65, 110, 103, 114, 121>>,                 \* "Angry"
      anger,
      <<99, 111, 110, 116, 101, 109, 112, 116>>,  \* "contempt"
      <<115, 97, 100, 45, 102, 101, 97, 114>> }   \* "sad-fear"
\* Scores of the pipeline: 0.5000457763671875 and 0.899993896484375.
\* Float32 scores of the tfjs model: 0, 0.03125 (half-way between 0.0312
\* and 0.0313) and 0.5000457763671875 (nearer to 0.5 than to 0.5001).
PredScores == {1048672 * Float32Step, 1887424 * Float32Step}
TfScores == {0, 65536 * Float32Step, 1048672 * Float32Step}

RECURSIVE SeqsUpTo(_, _)
SeqsUpTo(S, n) ==
    IF n = 0 THEN {<<>>}
    ELSE SeqsUpTo(S, n - 1)
         \cup {Append(q, x) : q \in {r \in SeqsUpTo(S, n - 1) : Len(r) = n - 1}, x \in S}

Inputs(v) ==
    IF v = "hf"
    THEN SeqsUpTo([label : Labels, score : PredScores], MaxPreds)
    ELSE [1..Len(EMOTION_LABELS) -> TfScores]

InitMap ==
    /\ PageInit
    /\ AdapterIdle
    /\ NoMounts
    /\ TensorIdle
    /\ SimInit
    /\ RecordingInit
    /\ dv \in Modules
    /\ ucd \in UcdVersions
    /\ input \in Inputs(dv)
    /\ mapPc = "call"
    /\ result = NoResult

\* The awaited model call has resolved with input; detectEmotion builds its
\* result and returns it.
returnResult ==
    /\ mapPc = "call"
    /\ mapPc' = "done"
    /\ result' = detectResult(dv, input)
    /\ UNCHANGED <<pageVars, adapterVars, dv, ucd, input, mountVars, tensorVars, simVars, recordingVars, events, lastCall>>

NextMap == returnResult

SpecMap == InitMap /\ [][NextMap]_vars

----------------------------------------------------------------------------
(* The Record page mounted, left and mounted again.  Every mount runs the  *)
(* init of the mount effect; the cleanup of an unmount stops the tracks    *)
(* and clears the intervals but does not cancel an init in flight.  All    *)
(* mounts share the module-level handle; loadCalls lists the calls of      *)
(* loadEmotionDetectionModel made on it.                                   *)

\* The route renders Record: the mount effect calls init(), which awaits
\* getUserMedia.  One Record page is mounted at a time.
mountPage ==
    /\ Len(pages) < MaxMounts
    /\ \A i \in 1..Len(pages) : ~pages[i].mounted
    /\ pages' = Append(pages, [pc |-> "camera", mounted |-> TRUE, load |-> 0,
                                toast |-> FALSE])
    /\ UNCHANGED <<pageVars, adapterVars, mapVars, tensorVars, simVars, recordingVars, events, lastCall>>

\* The user goes to another route: the page unmounts and the cleanup runs.
unmountPage(i) ==
    /\ pages[i].mounted
    /\ pages' = [pages EXCEPT ![i].mounted = FALSE]
    /\ UNCHANGED <<pageVars, adapterVars, mapVars, tensorVars, simVars, recordingVars, events, lastCall>>

\* getUserMedia of mount i resolves: init goes on to
\* await loadEmotionDetectionModel().
cameraGrantedAt(i) ==
    /\ pages[i].pc = "camera"
    /\ pages' = [pages EXCEPT ![i].pc = "loading", ![i].load = Len(loadCalls) + 1]
    /\ loadCalls' = Append(loadCalls, "pending")
    /\ UNCHANGED <<pageVars, detects, mapVars, tensorVars, simVars, recordingVars, events, lastCall>>

\* getUserMedia of mount i rejects: the catch block shows the toast and
\* calls navigate('/'), and the Record page that is mounted, if any,
\* unmounts.
cameraDeniedAt(i) ==
    /\ pages[i].pc = "camera"
    /\ pages' = [j \in DOMAIN pages |->
                    [pages[j] EXCEPT !.pc = IF j = i THEN "denied" ELSE @,
                                     !.toast = IF j = i THEN TRUE ELSE @,
                                     !.mounted = FALSE]]
    /\ UNCHANGED <<pageVars, adapterVars, mapVars, tensorVars, simVars, recordingVars, events, lastCall>>

\* The load that mount i awaits returns.
loadReturnsAt(i, fetchOk, warmOk) ==
    /\ pages[i].pc = "loading"
    /\ LET r == loadEmotionDetectionModel(variant, fetchOk, warmOk, classifier) IN
        /\ classifier' = r.handle
        /\ loadCalls' = [loadCalls EXCEPT ![pages[i].load] =
                            IF r.ret THEN "true" ELSE "false"]
        /\ pages' = [pages EXCEPT ![i].pc = IF r.ret THEN "ready" ELSE "fallback"]
    /\ UNCHANGED <<variant, mounted, initPc, stream, reactState, refs, recorders,
                   intervals, nextHandle, ticks, trackFlags, toasts, route,
                   stopCalls, detects, mapVars, tensorVars, simVars, recordingVars, events, lastCall>>

NextMounts ==
    \/ mountPage
    \/ \E i \in 1..Len(pages) : unmountPage(i)
    \/ \E i \in 1..Len(pages) : cameraGrantedAt(i)
    \/ \E i \in 1..Len(pages) : cameraDeniedAt(i)
    \/ \E i \in 1..Len(pages), fetchOk, warmOk \in BOOLEAN :
          loadReturnsAt(i, fetchOk, warmOk)

SpecMounts == Init /\ [][NextMounts]_vars

----------------------------------------------------------------------------
(* preprocessImage of the tfjs modules: from ImageData to the model's      *)
(* input tensor.  Values are followed as a range of fractions.             *)

\* tf.browser.fromPixels(imageData): height x width x 3, the pixel values.
fromPixels(img) ==
    [shape |-> <<img.height, img.width, 3>>, lo |-> img.lo, hi |-> img.hi,
     den |-> 1, nan |-> FALSE]

\* Mutant of resizeBilinear: the size is left as it is.
resizeBilinear_KeepsSize(t, size) == t

\* tf.image.resizeBilinear(t, size): every output value is a weighted mean
\* of input values.
resizeBilinear(t, size) == [t EXCEPT !.shape = <<size[1], size[2], t.shape[3]>>]

\* t.mean(axis), axis counted from 0.
mean(t, axis) ==
    [t EXCEPT !.shape = SubSeq(t.shape, 1, axis) \o
                        SubSeq(t.shape, axis + 2, Len(t.shape))]

\* t.mean(): a scalar.
meanAll(t) == [t EXCEPT !.shape = <<>>]

\* t.expandDims(axis), axis counted from 0.
expandDims(t, axis) ==
    [t EXCEPT !.shape = SubSeq(t.shape, 1, axis) \o <<1>> \o
                        SubSeq(t.shape, axis + 1, Len(t.shape))]

\* tf.scalar(n / d)
scalar(n, d) == [shape |-> <<>>, lo |-> n, hi |-> n, den |-> d, nan |-> FALSE]

\* Shape of an element-wise operation on a tensor and a scalar or on two
\* tensors of one shape.
broadcast(s1, s2) == IF s1 = <<>> THEN s2 ELSE s1

\* a.sub(b)
sub(a, b) ==
    [shape |-> broadcast(a.shape, b.shape),
     lo |-> a.lo * b.den - b.hi * a.den, hi |-> a.hi * b.den - b.lo * a.den,
     den |-> a.den * b.den, nan |-> a.nan \/ b.nan]

\* a.add(b)
add(a, b) ==
    [shape |-> broadcast(a.shape, b.shape),
     lo |-> a.lo * b.den + b.lo * a.den, hi |-> a.hi * b.den + b.hi * a.den,
     den |-> a.den * b.den, nan |-> a.nan \/ b.nan]

\* a.div(b), b a scalar: dividing by 0 gives NaN or an infinity.
div(a, b) ==
    IF b.lo <= 0 /\ b.hi >= 0
    THEN [shape |-> broadcast(a.shape, b.shape), lo |-> 0, hi |-> 0, den |-> 1,
          nan |-> TRUE]
    ELSE IF b.lo > 0
    THEN [shape |-> broadcast(a.shape, b.shape), lo |-> a.lo * b.den,
          hi |-> a.hi * b.den, den |-> a.den * b.lo, nan |-> a.nan \/ b.nan]
    ELSE [shape |-> broadcast(a.shape, b.shape), lo |-> -(a.hi * b.den),
          hi |-> -(a.lo * b.den), den |-> a.den * (-b.lo), nan |-> a.nan \/ b.nan]

\* tf.tidy(fn): of the tensors created while fn runs, the ones it returns
\* stay, the others are disposed.
tidy(created, returned) == created \cap returned

\* preprocessImage of the first tfjs module (unnamed/part_001:28-53): only
\* the grayscale step runs in tf.tidy; tensor, resized and grayscale are
\* disposed by hand.
preprocessImagePlain(img) ==
    LET tensor == fromPixels(img)
        resized == resizeBilinear(tensor, <<48, 48>>)
        grayscale == expandDims(mean(resized, 2), 2)
        normalized == div(grayscale, scalar(255, 1))
        batched == expandDims(normalized, 0)
        created == {"tensor", "resized"}
                   \cup tidy({"resized.mean", "grayscale"}, {"grayscale"})
                   \cup {"normalized", "batched"}
    IN [out |-> batched, live |-> created \ {"tensor", "resized", "grayscale"}]

\* preprocessImage of the later tfjs modules (unnamed/part_000:34-52,
\* unnamed/part_001:159-177): everything runs in one tf.tidy.
preprocessImageTidy(img) ==
    LET tensor == fromPixels(img)
        resized == resizeBilinear(tensor, <<48, 48>>)
        grayscale == expandDims(mean(resized, 2), 2)
        meanVal == meanAll(grayscale)
        normalized == add(div(sub(grayscale, meanVal), scalar(255, 1)), scalar(1, 2))
        batched == expandDims(normalized, 0)
    IN [out |-> batched,
        live |-> tidy({"tensor", "resized", "resized.mean", "grayscale", "meanVal",
                       "sub", "scalar", "div", "normalized", "batched"},
                      {"batched"})]

preprocessImage(v, img) ==
    IF v = "plain" THEN preprocessImagePlain(img) ELSE preprocessImageTidy(img)

\* Pixel values of the samples followed.
PixelValues == {0, 128, 255}

Images ==
    {img \in [width : 1..MaxSide, height : 1..MaxSide,
              lo : PixelValues, hi : PixelValues] : img.lo <= img.hi}

InitTensor ==
    /\ PageInit
    /\ AdapterIdle
    /\ MapIdle
    /\ NoMounts
    /\ SimInit
    /\ RecordingInit
    /\ pv \in {"plain", "tidy"}
    /\ image \in Images
    /\ prePc = "call"
    /\ tensorOut = NoTensor
    /\ live = {}

\* preprocessImage(imageData) runs and returns.
preprocessReturns ==
    /\ prePc = "call"
    /\ prePc' = "done"
    /\ tensorOut' = preprocessImage(pv, image).out
    /\ live' = preprocessImage(pv, image).live
    /\ UNCHANGED <<pageVars, adapterVars, mapVars, mountVars, pv, image, simVars,
                   recordingVars, events, lastCall>>

NextTensor == preprocessReturns

SpecTensor == InitTensor /\ [][NextTensor]_vars

----------------------------------------------------------------------------
(* The Record page that shows simulated analysis only (Record.tsx:12-390). *)

notSim == <<pageVars, recordingVars, events, lastCall, adapterVars, mapVars, mountVars, tensorVars>>

\* getUserMedia resolves: streamRef.current = stream, also when the page
\* has unmounted meanwhile.
simCameraGranted ==
    /\ sim.initPc = "camera"
    /\ sim' = [sim EXCEPT !.initPc = "granted", !.stream = TRUE]
    /\ UNCHANGED notSim

\* getUserMedia rejects: the toast is shown and navigate('/') is called;
\* a page still mounted unmounts and its cleanup runs, with no stream to
\* stop.
simCameraDenied ==
    /\ sim.initPc = "camera"
    /\ sim' = [sim EXCEPT !.initPc = "denied",
                          !.deniedToasts = @ + 1,
                          !.route = "home",
                          !.mounted = FALSE,
                          !.intervals = IF sim.mounted
                                        THEN {iv \in @ : iv.id # sim.timerRef}
                                        ELSE @]
    /\ UNCHANGED notSim

\* The user goes to another route, to, and the page unmounts.  The effect's
\* cleanup runs: the tracks of the stored stream are stopped and the
\* interval timerRef names is cleared.
\* A recorder still recording the stream ends with its tracks and owes its
\* stop event.
simUnmount(to) ==
    /\ sim.mounted
    /\ sim' = [sim EXCEPT !.mounted = FALSE,
                          !.route = to,
                          !.intervals = {iv \in @ : iv.id # sim.timerRef},
                          !.stopping = IF sim.stream /\ sim.isRecording
                                       THEN @ + 1 ELSE @]
    /\ UNCHANGED notSim

\* A click on Start Recording, rendered while isRecording is false:
\* startRecording returns at once without a stream; otherwise a
\* MediaRecorder is started and the 1-second interval is installed.  Its
\* callback keeps recordingTime of the render that created it.
simStartRecording ==
    /\ sim.mounted /\ ~sim.isRecording
    /\ sim.stream
    /\ sim.starts < MaxSimStarts
    /\ LET id == sim.starts + 1 IN
       sim' = [sim EXCEPT !.isRecording = TRUE,
                          !.timerRef = id,
                          !.intervals = @ \cup {[id |-> id,
                                                 recordingTime |-> sim.recordingTime]},
                          !.starts = id]
    /\ UNCHANGED notSim

\* A click on End Recording, rendered while isRecording is true:
\* stopRecording stops the recorder, which then owes its stop event.
simStopRecording ==
    /\ sim.mounted /\ sim.isRecording
    /\ sim' = [sim EXCEPT !.isRecording = FALSE,
                          !.stopping = @ + 1,
                          !.intervals = {iv \in @ : iv.id # sim.timerRef},
                          !.timerRef = 0]
    /\ UNCHANGED notSim

\* The stop event of a stopped recorder: onstop stores the Blob.
simOnStop ==
    /\ sim.stopping > 0
    /\ sim' = [sim EXCEPT !.stopping = @ - 1,
                          !.recordedBlob = IF sim.mounted THEN TRUE ELSE @]
    /\ UNCHANGED notSim

\* The New Recording button, rendered when !isRecording && recordedBlob.
simNewRecording ==
    /\ sim.mounted
    /\ ~sim.isRecording /\ sim.recordedBlob
    /\ sim' = [sim EXCEPT !.recordedBlob = FALSE, !.recordingTime = 0]
    /\ UNCHANGED notSim

\* The 1-second interval fires: setRecordingTime(prev => prev + 1), then
\* `if (recordingTime % 5 === 0) updateSimulatedAnalysis()` with the
\* recordingTime the callback was created with.
simTimerTick(iv) ==
    /\ sim.mounted
    /\ sim.recordingTime < MaxSimTime
    /\ sim' = [sim EXCEPT !.recordingTime = @ + 1,
                          !.firings = @ + 1,
                          !.before = sim.recordingTime,
                          !.updated = (iv.recordingTime % 5 = 0)]
    /\ UNCHANGED notSim

NextSim ==
    \/ simCameraGranted
    \/ simCameraDenied
    \/ \E to \in Leaves : simUnmount(to)
    \/ simStartRecording
    \/ simStopRecording
    \/ simOnStop
    \/ simNewRecording
    \/ \E iv \in sim.intervals : simTimerTick(iv)

SpecSim == Init /\ [][NextSim]_vars

----------------------------------------------------------------------------
(* Claims.                                                                 *)

DetectIntervals == {iv \in intervals : iv.kind = "detect"}
Handles(set) == {iv.id : iv \in set}

\* A detection interval fired in this step and its callback called
\* detectEmotion.
CallsDetect == /\ Len(ticks') = Len(ticks) + 1
               /\ ticks'[Len(ticks')].st # "skipped"

\* A detection interval fired in this step.
Fires == Len(ticks') = Len(ticks) + 1

\* C1: once stopRecording has returned, no detection result is written to
\* the UI state: a result is published only while the interval whose tick
\* produced it is still scheduled.
C1_NoPublishAfterStop ==
    [][emotions' # emotions => ticks[emotions'].loop \in Handles(intervals)]_vars

\* C2: at most one detection interval is scheduled in every reachable
\* state, also when startRecording is called while a loop is active: the
\* old interval is cancelled before the new one is installed.
C2_AtMostOneDetectionInterval == Cardinality(DetectIntervals) <= 1

\* C3: while isRecording is false no detection interval and no
\* recording-time interval is scheduled.
C3_NoIntervalUnlessRecording == ~isRecording => intervals = {}

\* C3 witness: a recording with a detection loop whose timers have both
\* fired was stopped.
C3_Witness ==
    /\ ~isRecording
    /\ toasts.complete = 1
    /\ recordingTime >= 1
    /\ ticks # <<>>
    /\ intervals = {}

\* C4: once the page has unmounted no interval is scheduled.
C4_NoIntervalAfterUnmount == ~mounted => intervals = {}

\* C4 witness: the page unmounted in the middle of a recording with a
\* detection loop that had fired.
C4_Witness ==
    /\ ~mounted
    /\ isRecording
    /\ emotionDetectionRef # 0
    /\ ticks # <<>>
    /\ intervals = {}

\* C5: a tick of a mounted page calls detectEmotion exactly when the video
\* is enabled at the time of the tick.
C5_TickRunsIffVideoOn ==
    [][(Fires /\ mounted) => (CallsDetect <=> isVideoOn)]_vars

\* C6: a detection interval is installed, and detectEmotion is called, only
\* after loadEmotionDetectionModel has returned true.
C6_LoopOnlyWhenReady ==
    [][/\ (DetectIntervals' # DetectIntervals /\ DetectIntervals' # {}
              => initPc = "ready")
       /\ (emotionDetectionRef' # emotionDetectionRef /\ emotionDetectionRef' # 0
              => initPc = "ready")
       /\ (Fires => initPc = "ready")]_vars

\* C6 witness: a recording started after the load had returned false has
\* run for a second of recording time without a detection interval.
C6_Witness ==
    /\ isRecording
    /\ recordingTime >= 1
    /\ emotionDetectionRef = 0
    /\ DetectIntervals = {}
    /\ initPc = "fallback"

\* C7: after the load returned false a recording refreshes the eye-movement
\* and gesture values: once a second of recording has been counted they
\* have been refreshed at least once.
C7_FallbackRefreshes ==
    (initPc = "fallback" /\ isRecording /\ recordingTime >= 1) => simRefreshes >= 1

\* A tick ended in null in this step: in its firing, or when its awaited
\* promise settled.
EndsInNull ==
    \/ Fires /\ ticks'[Len(ticks')].st = "null"
    \/ \E n \in 1..Len(ticks) : ticks[n].st = "inflight" /\ ticks'[n].st = "null"

\* C8: a tick that ends in null leaves the loop as it was: the intervals
\* scheduled, the two interval refs and isRecording are unchanged.
C8_BadTickKeepsLoop ==
    [][EndsInNull
          => /\ intervals' = intervals
             /\ emotionDetectionRef' = emotionDetectionRef
             /\ timerRef' = timerRef
             /\ isRecording' = isRecording]_vars

\* C8 witness: tick 1 ended in null and the same loop, still recording,
\* fired tick 2, which called detectEmotion.
C8_Witness ==
    /\ Len(ticks) >= 2
    /\ ticks[1].st = "null"
    /\ ticks[1].ran
    /\ ticks[2].loop = ticks[1].loop
    /\ ticks[2].st \in {"inflight", "result"}
    /\ isRecording
    /\ ticks[1].loop = emotionDetectionRef

\* C9: a stopRecording call that directly follows another one changes
\* nothing: no second notice is shown, no recorder changes its state, the
\* refs, the intervals and isRecording stay as they were.
C9_StopIdempotent ==
    [][(lastCall = "stop" /\ lastCall' = "stop")
          => /\ UNCHANGED <<toasts, isRecording, refs, intervals>>
             /\ \A r \in 1..Len(recorders) :
                    recorders'[r].state = recorders[r].state]_vars

\* C10: loadEmotionDetectionModel resolves true exactly when the handle is
\* set (detectEmotion will run inference) and false exactly when it is not.
C10_LoadResultMatchesHandle ==
    [][(initPc = "loading" /\ initPc' # "loading")
          => ((initPc' = "ready") <=> RunsInference')]_vars

\* C11: a detectEmotion call made while the handle is not Ready (no load
\* yet, a load pending, or the most recent load returned false) returns
\* null and starts no inference.
C11_NullUnlessReady ==
    \A i \in 1..Len(detects) :
        detects[i].state # "Ready"
            => (detects[i].out = "null" /\ ~detects[i].inferred)

\* C12: no detectEmotion call settles with an exception: whatever fails,
\* the promise, once settled, has resolved with null.
C12_DetectNeverThrows ==
    \A i \in 1..Len(detects) :
        /\ detects[i].out \in {"pending", "null", "result"}
        /\ (detects[i].failAt # "none" => detects[i].out = "null")

\* C12 witness: a call on a loaded handle whose awaited inference failed
\* has resolved with null.
C12_Witness ==
    \E i \in 1..Len(detects) :
        /\ detects[i].failAt = "inference"
        /\ detects[i].inferred
        /\ detects[i].state = "Ready"
        /\ detects[i].out = "null"

\* The seven canonical emotion keys, in canonical order.
CanonicalOrder == <<angry, disgust, fear, happy, sad, surprised, neutral>>
CanonicalKeys == Range(CanonicalOrder)

\* C13: the vector of every non-null result has exactly the seven canonical
\* keys.
C13_SevenCanonicalKeys ==
    mapPc = "done" => DOMAIN result.allEmotions = CanonicalKeys

\* The synonyms that send a label to a key.
Synonyms(k) ==
    IF k = surprised THEN {surprise}
    ELSE IF k = angry THEN {angry, anger}
    ELSE {k}

\* The keys a label names: those with a synonym that the lower-cased label
\* contains.
Matches(label) ==
    {k \in CanonicalKeys : \E w \in Synonyms(k) : includes(toLowerCase(label), w)}

\* The run of the pipeline module's mapEmotionsToUIFormat has returned.
MappedPipeline == dv = "hf" /\ mapPc = "done"

\* C14 (as written): for predictions with distinct target keys, each key
\* whose synonym a label contains gets that prediction's score and every
\* other key gets 0.
C14_SynonymKeyGetsScore ==
    (/\ MappedPipeline
     /\ \A i, j \in 1..Len(input) :
            i # j => Matches(input[i].label) \cap Matches(input[j].label) = {})
        => \A k \in CanonicalKeys :
               result.allEmotions[k] =
                   IF \E i \in 1..Len(input) : k \in Matches(input[i].label)
                   THEN input[CHOOSE i \in 1..Len(input) :
                                  k \in Matches(input[i].label)].score
                   ELSE 0

\* The order in which the synonyms are tried.
ChainOrder == <<happy, neutral, surprised, sad, angry, disgust, fear>>

\* The one key a prediction counts for: the first in ChainOrder among the
\* keys its label names; <<>> when it names none.
TargetKey(label) ==
    IF Matches(label) = {} THEN <<>>
    ELSE ChainOrder[CHOOSE n \in 1..Len(ChainOrder) :
                        /\ ChainOrder[n] \in Matches(label)
                        /\ \A m \in 1..(n - 1) : ChainOrder[m] \notin Matches(label)]

\* C14 (amended): a prediction counts for one key only, the first in the
\* order happy, neutral, surprised, sad, angry, disgust, fear whose synonym
\* its lower-cased label contains; for predictions with distinct such keys,
\* each of these keys gets its prediction's score and every other key 0.
C14_FirstSynonymKeyGetsScore ==
    MappedPipeline
        => LET target == [i \in 1..Len(input) |-> TargetKey(input[i].label)] IN
           (\A i, j \in 1..Len(input) :
                i # j /\ target[i] # <<>> => target[i] # target[j])
               => \A k \in CanonicalKeys :
                      result.allEmotions[k] =
                          IF \E i \in 1..Len(input) : target[i] = k
                          THEN input[CHOOSE i \in 1..Len(input) : target[i] = k].score
                          ELSE 0

\* A mixed-case label and a label without synonym have been mapped.
C14_Witness ==
    /\ MappedPipeline
    /\ Len(input) = 2
    /\ input[1].label # toLowerCase(input[1].label)
    /\ TargetKey(input[1].label) = happy
    /\ Matches(input[2].label) = {}
    /\ result.allEmotions[happy] = input[1].score

\* detectEmotion has returned a result.
Returned == mapPc = "done"

\* The largest score of a vector.
MaxScore(vector) ==
    CHOOSE x \in Range(vector) : \A k \in DOMAIN vector : vector[k] <= x

\* C15: emotion is a canonical key with the maximal score of the returned
\* vector, and among several keys with that score the earliest in the order
\* angry, disgust, fear, happy, sad, surprised, neutral.
C15_TopIsFirstMaxInCanonicalOrder ==
    (Returned /\ dv \in {"hf", "tfmap"})
        => /\ result.emotion \in CanonicalKeys
           /\ result.allEmotions[result.emotion] = MaxScore(result.allEmotions)
           /\ \E n \in 1..Len(CanonicalOrder) :
                  /\ CanonicalOrder[n] = result.emotion
                  /\ \A m \in 1..(n - 1) :
                         result.allEmotions[CanonicalOrder[m]]
                             < MaxScore(result.allEmotions)

\* C16: confidence is the score stored in the returned vector under the
\* key emotion.
C16_ConfidenceIsVectorEntry ==
    Returned
        => /\ result.emotion \in DOMAIN result.allEmotions
           /\ result.confidence = result.allEmotions[result.emotion]

\* The sequence without its i-th element.
RemoveAt(seq, i) == SubSeq(seq, 1, i - 1) \o SubSeq(seq, i + 1, Len(seq))

\* C17: when two predictions count for the same key, the key holds the
\* score of the later one and the vector is the one obtained without the
\* earlier prediction.
C17_LaterPredictionOverwrites ==
    MappedPipeline
        => LET target == [i \in 1..Len(input) |-> TargetKey(input[i].label)] IN
           \A i, j \in 1..Len(input) :
               (i < j /\ target[i] # <<>> /\ target[i] = target[j])
                   => /\ result.allEmotions = mapEmotionsToUIFormat(RemoveAt(input, i))
                      /\ (\A n \in (j + 1)..Len(input) : target[n] # target[j])
                             => result.allEmotions[target[j]] = input[j].score

\* Two predictions with different labels and scores counted for angry.
C17_Witness ==
    /\ MappedPipeline
    /\ Len(input) = 2
    /\ input[1].label # input[2].label
    /\ TargetKey(input[1].label) = angry
    /\ TargetKey(input[2].label) = angry
    /\ input[1].score > input[2].score
    /\ result.allEmotions[angry] = input[2].score

\* C18: with the camera stream acquired, the user can start a recording
\* when none runs and stop one that runs, whatever the classifier does.
C18_ClassifierNeverBlocksRecording ==
    (mounted /\ stream = "live")
        => /\ ~isRecording => StartButtonEnabled
           /\ isRecording => StopButtonShown

\* C19: once camera/microphone acquisition has failed, the access-denied
\* notice has been shown once, the router is at '/' and the page is gone;
\* no stream is stored, no model load was started and init stays there.
\* Without a stream no recording starts.
C19_DeniedStartsNothing ==
    /\ [](initPc = "denied"
            => /\ toasts.denied = 1 /\ route = "home" /\ ~mounted
               /\ stream = "none"
               /\ ~loadingModel /\ ~modelLoaded /\ classifier = 0)
    /\ [](toasts.denied > 0 => initPc = "denied")
    /\ [](stream = "none" => ~isRecording /\ recorders = <<>> /\ intervals = {})
    /\ [][initPc = "denied" => initPc' = "denied"]_vars

\* C19 witness: acquisition has failed; the notice is shown, the router is
\* at '/' and the page has unmounted.
C19_Witness ==
    /\ initPc = "denied"
    /\ toasts.denied = 1
    /\ route = "home"
    /\ ~mounted

\* The calls of loadEmotionDetectionModel that have not returned.
PendingLoads == {k \in 1..Len(loadCalls) : loadCalls[k] = "pending"}

\* C20: at most one loadEmotionDetectionModel call is pending at a time.
C20_NoConcurrentLoads == Cardinality(PendingLoads) <= 1

\* The awaited detectEmotion call of a tick resolved in this step.
Resolves ==
    \E n \in 1..Len(ticks) : ticks[n].st = "inflight" /\ ticks'[n].st # "inflight"

\* C22: a firing of the detection interval and the continuation of its
\* callback leave the stream, the tracks' enabled flags, the MediaRecorder,
\* isRecording, isMuted and isVideoOn as they were.
C22_TicksOnlyRead ==
    [][(Fires \/ Resolves)
          => UNCHANGED <<stream, trackFlags, recorders, mediaRecorderRef,
                         isRecording, isMuted, isVideoOn>>]_vars

\* C22 witness: during a recording one tick ended with a result and another
\* in null.
C22_Witness ==
    /\ Len(ticks) >= 2
    /\ ticks[1].st = "result"
    /\ ticks[2].st = "null"
    /\ isRecording
    /\ stream = "live"
    /\ recorders[mediaRecorderRef].state = "recording"

\* C25: once the page has unmounted, the stream it acquired is not live.
C25_NoLiveStreamAfterUnmount == ~mounted => stream # "live"

\* C27: results are applied in the order their ticks started: the tick whose
\* result is applied started after the tick whose result it replaces.
C27_ResultsAppliedInTickOrder ==
    [][emotions' # emotions => emotions' > emotions]_vars

\* startRecording was called in this step while no recording ran.
StartsRecording == ~isRecording /\ Len(recorders') = Len(recorders) + 1

\* C29: the elapsed-time counter is 0 when a recording starts, and during
\* a recording it changes only by a firing of the 1-second timer, which adds
\* exactly 1.
C29_CounterStartsAtZero ==
    [][/\ StartsRecording => recordingTime' = 0
       /\ (isRecording /\ recordingTime' # recordingTime)
              => recordingTime' = recordingTime + 1]_vars

\* C30: with a stream, the audio track is enabled iff isMuted is false and
\* the video track iff isVideoOn is true; with no stream neither the flags
\* nor the tracks change.
C30_TracksFollowFlags ==
    /\ [](stream # "none"
            => (audioEnabled <=> ~isMuted) /\ (videoEnabled <=> isVideoOn))
    /\ [][stream = "none" => UNCHANGED <<isMuted, isVideoOn, trackFlags>>]_vars

\* C30 witness: both toggles have been used; the page is muted with the
\* video off.
C30_Witness ==
    /\ stream = "live"
    /\ isMuted /\ ~audioEnabled
    /\ ~isVideoOn /\ ~videoEnabled

\* C23: when preprocessImage has returned, the returned batched tensor is
\* the only tensor of the call that is still live.
C23_OnlyResultStaysLive == prePc = "done" => live = {"batched"}

\* No value of the tensor is NaN or infinite.
Finite(t) == ~t.nan /\ t.den # 0

\* C24: for an image of non-zero width and height preprocessImage returns a
\* tensor of shape [1, 48, 48, 1] with finite values.
C24_ShapeAndFinite ==
    (prePc = "done" /\ image.width > 0 /\ image.height > 0)
        => /\ tensorOut.shape = <<1, 48, 48, 1>>
           /\ Finite(tensorOut)

\* C24 witness: the tidy variant has processed a sample that is not square,
\* not 48 pixels wide and not of one colour.
C24_Witness ==
    /\ prePc = "done"
    /\ pv = "tidy"
    /\ image.width # image.height
    /\ image.lo < image.hi
    /\ tensorOut.shape = <<1, 48, 48, 1>>
    /\ tensorOut.lo < tensorOut.hi

\* C26: a firing of the 1-second timer runs updateSimulatedAnalysis only
\* when the elapsed recording time, before or after the firing is counted,
\* is a multiple of 5.
C26_RefreshEveryFiveSeconds ==
    (sim.firings > 0 /\ sim.updated)
        => (sim.before % 5 = 0 \/ (sim.before + 1) % 5 = 0)

\* All ticks so far are firings of one detection interval.
OneLoop == \A i, j \in 1..Len(ticks) : ticks[i].loop = ticks[j].loop

\* C21: between two consecutive firings of the detection interval at most
\* one result is applied to the UI state.
C21_OneResultPerPeriod == OneLoop => applied <= 1

\* The chunks with data that recorder r has emitted, in order.
ChunksOf(r) ==
    [i \in 1..Len(recEvents[r].data) |-> [rec |-> r, n |-> recEvents[r].data[i]]]

\* C28: the stored Blob holds exactly the chunks its own recorder emitted.
C28_BlobHoldsOwnChunks ==
    recordedBlob # NoBlob => recordedBlob.chunks = ChunksOf(recordedBlob.rec)

====
